---- MODULE Spec2Model ----
(***************************************************************************)
(* A Ray of Hope donation management: the REST backend (the router with    *)
(* its controllers, and the single-file server), the zod schemas, the      *)
(* bearer-token middleware and the relational store with its foreign keys. *)
(*                                                                         *)
(* Time is counted in ticks of 12 hours.  JSON values carry their type:    *)
(* a value is a record [t, v] with t the JavaScript type.                  *)
(***************************************************************************)
EXTENDS Integers, Sequences, FiniteSets, TLC

VARIABLES
    now,      \* the wall clock, Date.now(), in ticks
    db,       \* the relational store: one set of rows per table
    nextId,   \* number of ids generated so far (ids are never reused)
    issued,   \* tokens handed out by successful logins (held by clients)
    last,     \* the step just taken: the request, what ran, the response
    stats,    \* the dashboard request in progress: its sub-queries, its answer
    client,   \* the browser: local storage, the API client, the App's state
    ui        \* the components the App renders, and their requests in flight

vars == <<now, db, nextId, issued, last, stats, client, ui>>

----------------------------------------------------------------------------
(* Bounds *)

MaxTime == 3
MaxRecords == 2
MaxTokens == 1
\* Donations in a store that earlier runs of the server filled
MaxDonations == 6
\* tokens issued to the browser and held by whoever copied them
MaxLogins == 2
\* handlers of the browser that reach an await in one run
MaxTasks == 3

\* the length of one tick of the clock, in hours
HoursPerTick == 12

----------------------------------------------------------------------------
(* JSON values *)

Str(s) == [t |-> "string", v |-> s]
Num(n) == [t |-> "number", v |-> n]
Undefined == [t |-> "undefined", v |-> 0]
Null == [t |-> "null", v |-> 0]

IsString(x) == x.t = "string"
IsNumber(x) == x.t = "number"
IsUndefined(x) == x.t = "undefined"

----------------------------------------------------------------------------
(* zod schemas *)

\* z.string().min(1)
NonEmptyString(x) == IsString(x) /\ x.v # ""

\* z.string().optional()
OptionalString(x) == IsUndefined(x) \/ IsString(x)

\* (variant: .nonnegative() in place of .positive())
NonNegativeNumber(x) == IsNumber(x) /\ x.v >= 0

\* z.number().positive()
PositiveNumber(x) == IsNumber(x) /\ x.v > 0

\* z.string().email(): the strings of the model that have the shape of an
\* e-mail address
EmailStrings == {"asha@example.org"}
IsEmail(x) == IsString(x) /\ x.v \in EmailStrings

CampaignStatus == {"ACTIVE", "COMPLETED", "PAUSED"}

\* safeParse-style results: ok = FALSE stands for a thrown ZodError
ZodError == [ok |-> FALSE, data |-> Undefined]
Parsed(d) == [ok |-> TRUE, data |-> d]

\* (variant: z.string() without .min(1))
authSchemaAnyString(body) ==
    IF IsString(body.username) /\ IsString(body.accessKey)
    THEN Parsed([username |-> body.username, accessKey |-> body.accessKey])
    ELSE ZodError

authSchema(body) ==
    IF NonEmptyString(body.username) /\ NonEmptyString(body.accessKey)
    THEN Parsed([username |-> body.username, accessKey |-> body.accessKey])
    ELSE ZodError

expenseSchema(body) ==
    IF /\ NonEmptyString(body.description)
       /\ PositiveNumber(body.amount)
       /\ NonEmptyString(body.category)
       /\ OptionalString(body.campaignId)
    THEN Parsed([description |-> body.description, amount |-> body.amount,
                 category |-> body.category, campaignId |-> body.campaignId])
    ELSE ZodError

donationSchema(body) ==
    IF /\ PositiveNumber(body.amount)
       /\ IsString(body.donorId)
       /\ OptionalString(body.campaignId)
    THEN Parsed([amount |-> body.amount, donorId |-> body.donorId,
                 campaignId |-> body.campaignId])
    ELSE ZodError

\* (variant: status: z.string().default("ACTIVE") in place of the enum)
campaignSchemaAnyStatus(body) ==
    IF /\ NonEmptyString(body.name)
       /\ OptionalString(body.description)
       /\ (IsUndefined(body.targetAmount) \/ PositiveNumber(body.targetAmount))
       /\ OptionalString(body.status)
    THEN Parsed([name |-> body.name, description |-> body.description,
                 targetAmount |-> body.targetAmount,
                 status |-> IF IsUndefined(body.status) THEN Str("ACTIVE")
                            ELSE body.status])
    ELSE ZodError

campaignSchema(body) ==
    IF /\ NonEmptyString(body.name)
       /\ OptionalString(body.description)
       /\ (IsUndefined(body.targetAmount) \/ PositiveNumber(body.targetAmount))
       /\ (IsUndefined(body.status)
             \/ (IsString(body.status) /\ body.status.v \in CampaignStatus))
    THEN Parsed([name |-> body.name, description |-> body.description,
                 targetAmount |-> body.targetAmount,
                 status |-> IF IsUndefined(body.status) THEN Str("ACTIVE")
                            ELSE body.status])
    ELSE ZodError

donorSchema(body) ==
    IF /\ NonEmptyString(body.name)
       /\ (IsUndefined(body.email) \/ IsEmail(body.email))
       /\ OptionalString(body.phone)
       /\ OptionalString(body.address)
    THEN Parsed([name |-> body.name, email |-> body.email,
                 phone |-> body.phone, address |-> body.address])
    ELSE ZodError

beneficiarySchema(body) ==
    IF /\ NonEmptyString(body.name)
       /\ OptionalString(body.description)
       /\ OptionalString(body.contactInfo)
    THEN Parsed([name |-> body.name, description |-> body.description,
                 contactInfo |-> body.contactInfo])
    ELSE ZodError

----------------------------------------------------------------------------
(* jsonwebtoken: sign and verify *)

JWT_SECRET == "ray-of-hope-secret-key"

\* expiresIn: "24h", in ticks
TokenTTL == 24 \div HoursPerTick

\* One space-separated segment of an Authorization header: plain text, or a
\* JSON web token with its payload and the key that signed it.
Text(s) == [kind |-> "text", text |-> s, username |-> "", iat |-> 0,
            exp |-> 0, key |-> ""]
Jwt(u, i, e, k) == [kind |-> "jwt", text |-> "", username |-> u, iat |-> i,
                    exp |-> e, key |-> k]
NoSegment == [kind |-> "undefined", text |-> "", username |-> "", iat |-> 0,
              exp |-> 0, key |-> ""]

\* jwt.sign({ username }, secret, { expiresIn: "24h" }) at time t
sign(username, secret, t) == Jwt(username, t, t + TokenTTL, secret)

\* (variant: verify with ignoreExpiration)
verifyIgnoreExpiration(token, secret, t) ==
    IF token.kind = "jwt" /\ token.key = secret
    THEN [err |-> FALSE, user |-> token.username]
    ELSE [err |-> TRUE, user |-> ""]

\* (variant: a token is good only while the browser that got it holds it)
verifyCurrentSession(token, secret, t) ==
    IF /\ token.kind = "jwt" /\ token.key = secret /\ t < token.exp
       /\ token = client.token
    THEN [err |-> FALSE, user |-> token.username]
    ELSE [err |-> TRUE, user |-> ""]

\* jwt.verify(token, secret, callback) at time t: err is set for a string
\* that is no token, a signature made with another key, an expired token
verify(token, secret, t) ==
    IF token.kind = "jwt" /\ token.key = secret /\ t < token.exp
    THEN [err |-> FALSE, user |-> token.username]
    ELSE [err |-> TRUE, user |-> ""]

----------------------------------------------------------------------------
(* Auth middleware *)

NoHeader == [present |-> FALSE, segs |-> <<>>]
Header(segs) == [present |-> TRUE, segs |-> segs]

\* authHeader && authHeader.split(" ")[1]
SecondSegment(h) ==
    IF h.present /\ Len(h.segs) >= 2 THEN h.segs[2] ELSE NoSegment

\* !token: undefined and the empty string are falsy
Falsy(token) ==
    token.kind = "undefined" \/ (token.kind = "text" /\ token.text = "")

\* (variant: the 403 branch without its return)
authenticateTokenFallsThrough(authHeader, t) ==
    LET token == SecondSegment(authHeader)
        v == verify(token, JWT_SECRET, t)
    IN  IF Falsy(token)
        THEN [sent |-> <<401>>, next |-> 0, user |-> ""]
        ELSE IF v.err
             THEN [sent |-> <<403>>, next |-> 1, user |-> ""]
             ELSE [sent |-> <<>>, next |-> 1, user |-> v.user]

\* (variant: only admin's tokens pass)
authenticateTokenAdminOnly(authHeader, t) ==
    LET token == SecondSegment(authHeader)
        v == verify(token, JWT_SECRET, t)
    IN  IF Falsy(token)
        THEN [sent |-> <<401>>, next |-> 0, user |-> ""]
        ELSE IF v.err \/ v.user # "admin"
             THEN [sent |-> <<403>>, next |-> 0, user |-> ""]
             ELSE [sent |-> <<>>, next |-> 1, user |-> v.user]

\* The outcome of the middleware on one request: the responses it sent, the
\* number of times it called next(), and req.user.
authenticateToken(authHeader, t) ==
    LET token == SecondSegment(authHeader)
        v == verify(token, JWT_SECRET, t)
    IN  IF Falsy(token)
        THEN [sent |-> <<401>>, next |-> 0, user |-> ""]
        ELSE IF v.err
             THEN [sent |-> <<403>>, next |-> 0, user |-> ""]
             ELSE [sent |-> <<>>, next |-> 1, user |-> v.user]

\* A route without middleware hands the request to its handler.
NoMiddleware == [sent |-> <<>>, next |-> 1, user |-> ""]

----------------------------------------------------------------------------
(* login *)

validCredentials ==
    << [username |-> "admin", key |-> "ray-hope-2024"],
       [username |-> "staff", key |-> "staff-access-2024"] >>

\* (variant: the username and the key matched against the list separately)
FindUserEitherEntry(username, accessKey) ==
    { i \in 1..Len(validCredentials) :
        /\ validCredentials[i].username = username.v
        /\ \E j \in 1..Len(validCredentials) :
               validCredentials[j].key = accessKey.v }

\* validCredentials.find(u => u.username === username && u.key === accessKey)
FindUser(username, accessKey) ==
    { i \in 1..Len(validCredentials) :
        /\ validCredentials[i].username = username.v
        /\ validCredentials[i].key = accessKey.v }

\* What a handler did: the response, the store and the id counter it
\* leaves, the number of store queries it issued, the tokens it signed
Res(status, out, d, n, q) ==
    [status |-> status, out |-> out, db |-> d, nextId |-> n, queries |-> q,
     tokens |-> {}]

login(body, d, n, t) ==
    LET p == authSchema(body)
    IN  IF ~p.ok
        THEN { Res(400, Str("Invalid login data"), d, n, 0) }
        ELSE IF FindUser(p.data.username, p.data.accessKey) = {}
             THEN { Res(401, Str("Invalid credentials"), d, n, 0) }
             ELSE LET token == sign(p.data.username.v, JWT_SECRET, t)
                  IN  { [status |-> 200,
                         out |-> [token |-> token,
                                  username |-> p.data.username],
                         db |-> d, nextId |-> n, queries |-> 0,
                         tokens |-> {token}] }

----------------------------------------------------------------------------
(* The relational store (Prisma over the migration's tables) *)

EmptyDb == [campaigns |-> {}, donors |-> {}, beneficiaries |-> {},
            donations |-> {}, expenses |-> {}]

RowIds(rows) == { r.id : r \in rows }

\* the n+1st generated primary key
NewId(n) == Str(ToString(n + 1))

\* an omitted optional field is stored as NULL
OrNull(x) == IF IsUndefined(x) THEN Null ELSE x

\* FOREIGN KEY (col) REFERENCES rows(id), col NOT NULL
RefHolds(ref, rows) == ref \in RowIds(rows)

\* FOREIGN KEY (col) REFERENCES rows(id), col nullable
NullableRefHolds(ref, rows) == ref = Null \/ ref \in RowIds(rows)

Rejected(d) == [ok |-> FALSE, row |-> Null, db |-> d]
Inserted(row, d) == [ok |-> TRUE, row |-> row, db |-> d]

\* prisma.expense.create({ data })
expenseCreate(data, d, n, t) ==
    LET row == [id |-> NewId(n), description |-> data.description,
                amount |-> data.amount, category |-> data.category,
                campaignId |-> OrNull(data.campaignId),
                createdAt |-> t, updatedAt |-> t]
    IN  IF NullableRefHolds(row.campaignId, d.campaigns)
        THEN Inserted(row, [d EXCEPT !.expenses = @ \cup {row}])
        ELSE Rejected(d)

\* prisma.donation.create({ data })
donationCreate(data, d, n, t) ==
    LET row == [id |-> NewId(n), amount |-> data.amount,
                donorId |-> data.donorId,
                campaignId |-> OrNull(data.campaignId),
                createdAt |-> t, updatedAt |-> t]
    IN  IF /\ RefHolds(row.donorId, d.donors)
           /\ NullableRefHolds(row.campaignId, d.campaigns)
        THEN Inserted(row, [d EXCEPT !.donations = @ \cup {row}])
        ELSE Rejected(d)

\* prisma.campaign.create({ data })
campaignCreate(data, d, n, t) ==
    LET row == [id |-> NewId(n), name |-> data.name,
                description |-> OrNull(data.description),
                targetAmount |-> OrNull(data.targetAmount),
                status |-> data.status,
                createdAt |-> t, updatedAt |-> t]
    IN  Inserted(row, [d EXCEPT !.campaigns = @ \cup {row}])

\* (variant: the e-mail address left out of the insert)
donorCreateDropsEmail(data, d, n, t) ==
    LET row == [id |-> NewId(n), name |-> data.name,
                email |-> Null, phone |-> OrNull(data.phone),
                address |-> OrNull(data.address),
                createdAt |-> t, updatedAt |-> t]
    IN  [ok |-> TRUE, row |-> row, db |-> [d EXCEPT !.donors = @ \cup {row}]]

\* prisma.donor.create({ data })
donorCreate(data, d, n, t) ==
    LET row == [id |-> NewId(n), name |-> data.name,
                email |-> OrNull(data.email), phone |-> OrNull(data.phone),
                address |-> OrNull(data.address),
                createdAt |-> t, updatedAt |-> t]
    IN  Inserted(row, [d EXCEPT !.donors = @ \cup {row}])

\* prisma.beneficiary.create({ data })
beneficiaryCreate(data, d, n, t) ==
    LET row == [id |-> NewId(n), name |-> data.name,
                description |-> OrNull(data.description),
                contactInfo |-> OrNull(data.contactInfo),
                createdAt |-> t, updatedAt |-> t]
    IN  Inserted(row, [d EXCEPT !.beneficiaries = @ \cup {row}])

\* (variant: donations_donorId_fkey without ON DELETE CASCADE enforcement)
donorDeleteNoCascade(id, d) ==
    [d EXCEPT !.donors = { r \in @ : r.id # id }]

\* (variant: the cascade not restricted to the donor's own donations)
donorDeleteAllDonations(id, d) ==
    [d EXCEPT !.donors = { r \in @ : r.id # id },
              !.donations = { r \in @ : r.donorId # id /\ r.donorId = id }]

\* DELETE FROM donors WHERE id = ...: donations_donorId_fkey ON DELETE CASCADE
donorDelete(id, d) ==
    [d EXCEPT !.donors = { r \in @ : r.id # id },
              !.donations = { r \in @ : r.donorId # id }]

\* (variant: both foreign keys ON DELETE CASCADE)
campaignDeleteCascade(id, d) ==
    [d EXCEPT !.campaigns = { r \in @ : r.id # id },
              !.donations = { r \in @ : r.campaignId # id },
              !.expenses = { r \in @ : r.campaignId # id }]

\* DELETE FROM campaigns WHERE id = ...: donations_campaignId_fkey and
\* expenses_campaignId_fkey ON DELETE SET NULL
campaignDelete(id, d) ==
    [d EXCEPT !.campaigns = { r \in @ : r.id # id },
              !.donations = { IF r.campaignId = id
                              THEN [r EXCEPT !.campaignId = Null] ELSE r
                              : r \in @ },
              !.expenses = { IF r.campaignId = id
                             THEN [r EXCEPT !.campaignId = Null] ELSE r
                             : r \in @ }]

\* All orders in which a query may return a set of rows
RECURSIVE Orderings(_)
Orderings(rows) ==
    IF rows = {} THEN { <<>> }
    ELSE UNION { { <<r>> \o f : f \in Orderings(rows \ {r}) } : r \in rows }

\* (variant: orderBy: { createdAt: "asc" })
findManyAsc(rows) ==
    { f \in Orderings(rows) :
        \A i, j \in 1..Cardinality(rows) :
            i < j => f[i].createdAt <= f[j].createdAt }

\* findMany({ orderBy: { createdAt: "desc" } }): rows with the same
\* timestamp come in any order
findManyDesc(rows) ==
    { f \in Orderings(rows) :
        \A i, j \in 1..Cardinality(rows) :
            i < j => f[i].createdAt >= f[j].createdAt }

\* (variant: the k rows taken from the other end of the ordering)
TakeFromEnd(f, k) ==
    [i \in 1..(IF Len(f) < k THEN Len(f) ELSE k) |->
        f[Len(f) - (IF Len(f) < k THEN Len(f) ELSE k) + i]]

\* take: k
Take(f, k) == [i \in 1..(IF Len(f) < k THEN Len(f) ELSE k) |-> f[i]]

RECURSIVE SumAmounts(_)
SumAmounts(rows) ==
    IF rows = {} THEN 0
    ELSE LET r == CHOOSE x \in rows : TRUE
         IN  r.amount.v + SumAmounts(rows \ {r})

\* aggregate({ _sum: { amount: true } }): NULL over an empty table
aggregateSum(rows) == IF rows = {} THEN Null ELSE Num(SumAmounts(rows))

\* (variant: the total passed on as the aggregate returned it)
OrZeroOmitted(x) == x

\* x || 0
OrZero(x) == IF x = Null \/ x = Num(0) THEN Num(0) ELSE x

\* include: { campaign: true } / { donor: true }: the referenced row, if any
Related(ref, rows) == { r \in rows : r.id = ref }

----------------------------------------------------------------------------
(* Controllers (backend/controllers/index.js) *)

\* take: 5
RecentLimit == 5

\* the four sub-queries of the dashboard, each over the store as it is when
\* the query runs
donationAggregate(d) == aggregateSum(d.donations)

expenseAggregate(d) == aggregateSum(d.expenses)

campaignCount(d) ==
    Cardinality({ c \in d.campaigns : c.status = Str("ACTIVE") })

recentDonations(d) ==
    { LET g == Take(f, RecentLimit)
      IN  [i \in DOMAIN g |->
              [row |-> g[i],
               donor |-> Related(g[i].donorId, d.donors),
               campaign |-> Related(g[i].campaignId, d.campaigns)]]
      : f \in findManyDesc(d.donations) }

\* res.json({ totalDonations, totalExpenses, activeCampaigns, recentDonors })
statsBody(totalDonations, totalExpenses, activeCampaigns, recentDonors) ==
    [totalDonations |-> OrZero(totalDonations),
     totalExpenses |-> OrZero(totalExpenses),
     activeCampaigns |-> activeCampaigns,
     recentDonors |-> recentDonors]

\* the handler when nothing is written between its queries and none fails
getDashboardStats(body, d, n, t) ==
    { Res(200, statsBody(donationAggregate(d), expenseAggregate(d),
                         campaignCount(d), recent),
          d, n, 4)
      : recent \in recentDonations(d) }

getExpenses(body, d, n, t) ==
    { Res(200, [i \in DOMAIN f |->
                  [row |-> f[i],
                   campaign |-> Related(f[i].campaignId, d.campaigns)]],
          d, n, 1)
      : f \in findManyDesc(d.expenses) }

createExpense(body, d, n, t) ==
    LET p == expenseSchema(body)
        c == expenseCreate(p.data, d, n, t)
    IN  IF ~p.ok THEN { Res(400, Str("Invalid expense data"), d, n, 0) }
        ELSE IF ~c.ok THEN { Res(400, Str("Invalid expense data"), d, n, 1) }
        ELSE { Res(201, c.row, c.db, n + 1, 1) }

getDonations(body, d, n, t) ==
    { Res(200, [i \in DOMAIN f |->
                  [row |-> f[i],
                   donor |-> Related(f[i].donorId, d.donors),
                   campaign |-> Related(f[i].campaignId, d.campaigns)]],
          d, n, 1)
      : f \in findManyDesc(d.donations) }

createDonation(body, d, n, t) ==
    LET p == donationSchema(body)
        c == donationCreate(p.data, d, n, t)
    IN  IF ~p.ok THEN { Res(400, Str("Invalid donation data"), d, n, 0) }
        ELSE IF ~c.ok THEN { Res(400, Str("Invalid donation data"), d, n, 1) }
        ELSE { Res(201, c.row, c.db, n + 1, 1) }

getCampaigns(body, d, n, t) ==
    { Res(200, [i \in DOMAIN f |->
                  [row |-> f[i],
                   donations |-> Cardinality({ r \in d.donations :
                                                 r.campaignId = f[i].id }),
                   expenses |-> Cardinality({ r \in d.expenses :
                                                r.campaignId = f[i].id })]],
          d, n, 1)
      : f \in findManyDesc(d.campaigns) }

createCampaign(body, d, n, t) ==
    LET p == campaignSchema(body)
        c == campaignCreate(p.data, d, n, t)
    IN  IF ~p.ok THEN { Res(400, Str("Invalid campaign data"), d, n, 0) }
        ELSE IF ~c.ok THEN { Res(400, Str("Invalid campaign data"), d, n, 1) }
        ELSE { Res(201, c.row, c.db, n + 1, 1) }

getDonors(body, d, n, t) ==
    { Res(200, [i \in DOMAIN f |->
                  [row |-> f[i],
                   donations |-> Cardinality({ r \in d.donations :
                                                 r.donorId = f[i].id })]],
          d, n, 1)
      : f \in findManyDesc(d.donors) }

createDonor(body, d, n, t) ==
    LET p == donorSchema(body)
        c == donorCreate(p.data, d, n, t)
    IN  IF ~p.ok THEN { Res(400, Str("Invalid donor data"), d, n, 0) }
        ELSE IF ~c.ok THEN { Res(400, Str("Invalid donor data"), d, n, 1) }
        ELSE { Res(201, c.row, c.db, n + 1, 1) }

getBeneficiaries(body, d, n, t) ==
    { Res(200, [i \in DOMAIN f |-> [row |-> f[i]]], d, n, 1)
      : f \in findManyDesc(d.beneficiaries) }

createBeneficiary(body, d, n, t) ==
    LET p == beneficiarySchema(body)
        c == beneficiaryCreate(p.data, d, n, t)
    IN  IF ~p.ok THEN { Res(400, Str("Invalid beneficiary data"), d, n, 0) }
        ELSE IF ~c.ok
             THEN { Res(400, Str("Invalid beneficiary data"), d, n, 1) }
        ELSE { Res(201, c.row, c.db, n + 1, 1) }

\* createdAt.toISOString().split("T")[0]: the calendar day of a timestamp
IsoDate(t) == (t * HoursPerTick) \div 24

\* (variant: expense.campaignId || "N/A")
CampaignIdOrPlaceholder(ref, campaigns) ==
    IF ref = Null THEN Str("N/A") ELSE ref

\* expense.campaign?.name || "N/A"
CampaignName(ref, campaigns) ==
    IF \E c \in Related(ref, campaigns) : c.name.v # ""
    THEN (CHOOSE c \in Related(ref, campaigns) : TRUE).name
    ELSE Str("N/A")

\* (variant: the exported Expenses are removed from the store)
exportExpensesAndClear(body, d, n, t) ==
    { Res(200, [i \in DOMAIN f |->
                  [date |-> IsoDate(f[i].createdAt),
                   description |-> f[i].description,
                   amount |-> f[i].amount,
                   category |-> f[i].category,
                   campaign |-> CampaignName(f[i].campaignId, d.campaigns)]],
          [d EXCEPT !.expenses = {}], n, 1)
      : f \in Orderings(d.expenses) }

\* findMany without orderBy: the rows come in the order the store picks
exportExpenses(body, d, n, t) ==
    { Res(200, [i \in DOMAIN f |->
                  [date |-> IsoDate(f[i].createdAt),
                   description |-> f[i].description,
                   amount |-> f[i].amount,
                   category |-> f[i].category,
                   campaign |-> CampaignName(f[i].campaignId, d.campaigns)]],
          d, n, 1)
      : f \in Orderings(d.expenses) }

----------------------------------------------------------------------------
(* Single-file server: the create routes answer a store failure with 500 *)

serverCreateExpense(body, d, n, t) ==
    LET p == expenseSchema(body)
        c == expenseCreate(p.data, d, n, t)
    IN  IF ~p.ok THEN { Res(400, Str("Invalid expense data"), d, n, 0) }
        ELSE IF ~c.ok
             THEN { Res(500, Str("Failed to create expense"), d, n, 1) }
        ELSE { Res(201, c.row, c.db, n + 1, 1) }

serverCreateDonation(body, d, n, t) ==
    LET p == donationSchema(body)
        c == donationCreate(p.data, d, n, t)
    IN  IF ~p.ok THEN { Res(400, Str("Invalid donation data"), d, n, 0) }
        ELSE IF ~c.ok
             THEN { Res(500, Str("Failed to create donation"), d, n, 1) }
        ELSE { Res(201, c.row, c.db, n + 1, 1) }

serverCreateCampaign(body, d, n, t) ==
    LET p == campaignSchema(body)
        c == campaignCreate(p.data, d, n, t)
    IN  IF ~p.ok THEN { Res(400, Str("Invalid campaign data"), d, n, 0) }
        ELSE IF ~c.ok
             THEN { Res(500, Str("Failed to create campaign"), d, n, 1) }
        ELSE { Res(201, c.row, c.db, n + 1, 1) }

serverCreateDonor(body, d, n, t) ==
    LET p == donorSchema(body)
        c == donorCreate(p.data, d, n, t)
    IN  IF ~p.ok THEN { Res(400, Str("Invalid donor data"), d, n, 0) }
        ELSE IF ~c.ok
             THEN { Res(500, Str("Failed to create donor"), d, n, 1) }
        ELSE { Res(201, c.row, c.db, n + 1, 1) }

serverCreateBeneficiary(body, d, n, t) ==
    LET p == beneficiarySchema(body)
        c == beneficiaryCreate(p.data, d, n, t)
    IN  IF ~p.ok THEN { Res(400, Str("Invalid beneficiary data"), d, n, 0) }
        ELSE IF ~c.ok
             THEN { Res(500, Str("Failed to create beneficiary"), d, n, 1) }
        ELSE { Res(201, c.row, c.db, n + 1, 1) }

----------------------------------------------------------------------------
(* Routes *)

\* (variant: the routes registered without the middleware)
Unprotected == <<>>

Protected == <<"authenticateToken">>

\* backend/routes/index.js
router ==
    { [path |-> "POST /auth/login", middleware |-> <<>>,
       handler |-> "login"],
      [path |-> "GET /dashboard/stats", middleware |-> Protected,
       handler |-> "getDashboardStats"],
      [path |-> "GET /expenses", middleware |-> Protected,
       handler |-> "getExpenses"],
      [path |-> "POST /expenses", middleware |-> Protected,
       handler |-> "createExpense"],
      [path |-> "GET /donations", middleware |-> Protected,
       handler |-> "getDonations"],
      [path |-> "POST /donations", middleware |-> Protected,
       handler |-> "createDonation"],
      [path |-> "GET /campaigns", middleware |-> Protected,
       handler |-> "getCampaigns"],
      [path |-> "POST /campaigns", middleware |-> Protected,
       handler |-> "createCampaign"],
      [path |-> "GET /donors", middleware |-> Protected,
       handler |-> "getDonors"],
      [path |-> "POST /donors", middleware |-> Protected,
       handler |-> "createDonor"],
      [path |-> "GET /beneficiaries", middleware |-> Protected,
       handler |-> "getBeneficiaries"],
      [path |-> "POST /beneficiaries", middleware |-> Protected,
       handler |-> "createBeneficiary"],
      [path |-> "GET /export/expenses", middleware |-> Protected,
       handler |-> "exportExpenses"] }

\* the create routes of the single-file server (its other routes have the
\* same text as the controllers)
server ==
    { [path |-> "POST /api/expenses", middleware |-> Protected,
       handler |-> "serverCreateExpense"],
      [path |-> "POST /api/donations", middleware |-> Protected,
       handler |-> "serverCreateDonation"],
      [path |-> "POST /api/campaigns", middleware |-> Protected,
       handler |-> "serverCreateCampaign"],
      [path |-> "POST /api/donors", middleware |-> Protected,
       handler |-> "serverCreateDonor"],
      [path |-> "POST /api/beneficiaries", middleware |-> Protected,
       handler |-> "serverCreateBeneficiary"] }

\* the routes registered for a method and path
Matching(path) == { r \in router \cup server : r.path = path }

Route(path) == CHOOSE r \in router \cup server : r.path = path

\* Express found no route: nothing runs and the answer is 404
Unrouted == [sent |-> <<404>>, next |-> 0, user |-> ""]

\* Express runs the route's middleware, then the handler if next() was called
RunMiddleware(mws, authHeader, t) ==
    IF Len(mws) = 0 THEN NoMiddleware ELSE authenticateToken(authHeader, t)

Handle(handler, body, d, n, t) ==
    CASE handler = "login" -> login(body, d, n, t)
      [] handler = "getDashboardStats" -> getDashboardStats(body, d, n, t)
      [] handler = "getExpenses" -> getExpenses(body, d, n, t)
      [] handler = "createExpense" -> createExpense(body, d, n, t)
      [] handler = "getDonations" -> getDonations(body, d, n, t)
      [] handler = "createDonation" -> createDonation(body, d, n, t)
      [] handler = "getCampaigns" -> getCampaigns(body, d, n, t)
      [] handler = "createCampaign" -> createCampaign(body, d, n, t)
      [] handler = "getDonors" -> getDonors(body, d, n, t)
      [] handler = "createDonor" -> createDonor(body, d, n, t)
      [] handler = "getBeneficiaries" -> getBeneficiaries(body, d, n, t)
      [] handler = "createBeneficiary" -> createBeneficiary(body, d, n, t)
      [] handler = "exportExpenses" -> exportExpenses(body, d, n, t)
      [] handler = "serverCreateExpense" -> serverCreateExpense(body, d, n, t)
      [] handler = "serverCreateDonation" ->
             serverCreateDonation(body, d, n, t)
      [] handler = "serverCreateCampaign" ->
             serverCreateCampaign(body, d, n, t)
      [] handler = "serverCreateDonor" -> serverCreateDonor(body, d, n, t)
      [] handler = "serverCreateBeneficiary" ->
             serverCreateBeneficiary(body, d, n, t)

----------------------------------------------------------------------------
(* The dashboard handler, one sub-query at a time *)

Unsettled == [state |-> "pending", value |-> Null]
Fulfilled(v) == [state |-> "fulfilled", value |-> v]
Rejection == [state |-> "rejected", value |-> Null]

SubQueries == 1..4

\* what the q-th sub-query of Promise.all([...]) resolves to over the store d
SubQuery(q, d) ==
    CASE q = 1 -> { Fulfilled(donationAggregate(d)) }
      [] q = 2 -> { Fulfilled(expenseAggregate(d)) }
      [] q = 3 -> { Fulfilled(campaignCount(d)) }
      [] q = 4 -> { Fulfilled(recent) : recent \in recentDonations(d) }

\* (variant: Promise.allSettled, which waits for all and never rejects)
promiseAllSettled(results) ==
    IF \E q \in SubQueries : results[q].state = "pending"
    THEN "pending" ELSE "fulfilled"

\* Promise.all: rejected as soon as one promise is rejected, fulfilled when
\* all are fulfilled
promiseAll(results) ==
    IF \E q \in SubQueries : results[q].state = "rejected" THEN "rejected"
    ELSE IF \A q \in SubQueries : results[q].state = "fulfilled"
         THEN "fulfilled"
         ELSE "pending"

NoStats == [active |-> FALSE, pending |-> {},
            results |-> [q \in SubQueries |-> Unsettled],
            sent |-> <<>>, out |-> Undefined]

\* the handler has started: the four queries are on their way
statsStarted == [NoStats EXCEPT !.active = TRUE, !.pending = SubQueries]

\* the q-th sub-query settles with the given outcome; the handler resumes
\* after its await when Promise.all settles, and answers
statsSettled(st, q, outcome) ==
    LET results == [st.results EXCEPT ![q] = outcome]
        before == promiseAll(st.results)
        after == promiseAll(results)
        st1 == [st EXCEPT !.pending = @ \ {q}, !.results = results]
    IN  IF before # "pending" \/ after = "pending" THEN st1
        ELSE IF after = "rejected"
             THEN [st1 EXCEPT
                     !.sent = @ \o <<500>>,
                     !.out = Str("Failed to fetch dashboard statistics")]
             ELSE [st1 EXCEPT
                     !.sent = @ \o <<200>>,
                     !.out = statsBody(results[1].value, results[2].value,
                                       results[3].value, results[4].value)]

----------------------------------------------------------------------------
(* The browser *)

\* a browser that never logged in, before the App's first effect has run
FreshClient ==
    [storage |-> [auth_token |-> NoSegment, username |-> Null],
     token |-> NoSegment,
     isAuthenticated |-> FALSE, username |-> Str(""), loading |-> TRUE]

\* (variant: the token written to local storage only)
setTokenInStorage(c, token) == [c EXCEPT !.storage.auth_token = token]

\* ApiClient.setToken
setToken(c, token) ==
    [c EXCEPT !.token = token, !.storage.auth_token = token]

\* (variant: only the field cleared, the stored token left in place)
clearTokenInMemory(c) == [c EXCEPT !.token = NoSegment]

\* ApiClient.clearToken
clearToken(c) ==
    [c EXCEPT !.token = NoSegment, !.storage.auth_token = NoSegment]

\* App.handleAuthenticated
handleAuthenticated(c, user) ==
    [c EXCEPT !.isAuthenticated = TRUE, !.username = user,
              !.storage.username = user]

\* App.handleLogout
handleLogout(c) ==
    clearToken([c EXCEPT !.isAuthenticated = FALSE, !.username = Str(""),
                         !.storage.username = Null])

\* a page load: new ApiClient() and the App's initial state over the storage
\* the browser kept
pageLoad(c) ==
    [FreshClient EXCEPT !.storage = c.storage, !.token = c.storage.auth_token]

\* token && savedUsername
Truthy(token, savedUsername) ==
    /\ ~Falsy(token)
    /\ IsString(savedUsername) /\ savedUsername.v # ""

\* the App's first effect
checkAuthenticated(c) ==
    IF Truthy(c.storage.auth_token, c.storage.username)
    THEN [c EXCEPT !.isAuthenticated = TRUE,
                   !.username = c.storage.username, !.loading = FALSE]
    ELSE [c EXCEPT !.loading = FALSE]

\* what App renders
Screen(c) ==
    IF c.loading THEN "spinner"
    ELSE IF ~c.isAuthenticated THEN "AuthGate" ELSE "Dashboard"

\* ...(this.token && { Authorization: `Bearer ${this.token}` })
clientHeader(c) ==
    IF Falsy(c.token) THEN NoHeader
    ELSE Header(<<Text("Bearer"), c.token>>)

\* a component that is not rendered
Unmounted == [mounted |-> FALSE]

\* AuthGate as it mounts: loading and error (the two input fields are read
\* when the form is submitted)
AuthGateMounted == [mounted |-> TRUE, loading |-> FALSE, error |-> Str("")]

\* Dashboard as it mounts: activeTab, stats, loading, and its two effects
\* still to run
DashboardMounted ==
    [mounted |-> TRUE, activeTab |-> "dashboard", stats |-> Null,
     loading |-> TRUE, effects |-> 2]

\* the components before the App's first effect has run: their states, the
\* handlers stopped at an await, and how many handlers have reached one
NoUi ==
    [gate |-> Unmounted, dashboard |-> Unmounted, manager |-> Unmounted,
     tasks |-> {}, started |-> 0]

\* the App renders the spinner, AuthGate or Dashboard: a component that
\* appears mounts with its initial state, one that disappears is dropped
\* (what its handlers set after that is set on nothing)
render(c, u) ==
    CASE Screen(c) = "Dashboard" ->
             [u EXCEPT !.gate = Unmounted,
                       !.dashboard = IF @.mounted THEN @
                                     ELSE DashboardMounted]
      [] Screen(c) = "AuthGate" ->
             [u EXCEPT !.gate = IF @.mounted THEN @ ELSE AuthGateMounted,
                       !.dashboard = Unmounted, !.manager = Unmounted,
                       !.tasks = { t \in @ : t.owner = "AuthGate" }]
      [] OTHER ->
             [u EXCEPT !.gate = Unmounted, !.dashboard = Unmounted,
                       !.manager = Unmounted, !.tasks = {}]

----------------------------------------------------------------------------
(* Requests *)

Bearer(token) == Header(<<Text("Bearer"), token>>)

\* a token signed by somebody who does not know the secret
Forged(t) == sign("admin", "not-the-secret", t)

\* headers that carry no token of this server
StrangerHeaders(t) ==
    { NoHeader,
      Header(<<Text("Bearer")>>),
      Header(<<Text("Bearer"), Text(""), Forged(t)>>),
      Bearer(Text("not-a-token")),
      Bearer(Forged(t)) }

\* headers a client that logged in can send
HolderHeaders == { Bearer(token) : token \in issued }

NoBody == [empty |-> TRUE]

UsernameInputs ==
    { Undefined, Num(7), Str(""), Str("admin"), Str("staff"), Str("guest") }
AccessKeyInputs ==
    { Undefined, Num(7), Str(""), Str("ray-hope-2024"),
      Str("staff-access-2024"), Str("guess") }
\* admin with every key, every username with admin's key, staff's own pair
LoginBodies ==
    { [username |-> Str("admin"), accessKey |-> k] : k \in AccessKeyInputs }
    \cup { [username |-> u, accessKey |-> Str("ray-hope-2024")] :
             u \in UsernameInputs }
    \cup { [username |-> Str("staff"), accessKey |-> Str("staff-access-2024")],
           [username |-> Undefined, accessKey |-> Undefined] }

AmountInputs == { Num(-5), Num(0), Num(500), Str("500") }
RefInputs(rows) == RowIds(rows) \cup { Str("missing") }

ExpenseBase ==
    [description |-> Str("Food"), amount |-> Num(500),
     category |-> Str("Food"), campaignId |-> Undefined]
ExpenseBodies ==
    { [ExpenseBase EXCEPT !.amount = a] : a \in AmountInputs }
    \cup { [ExpenseBase EXCEPT !.description = x] : x \in {Str(""), Undefined} }
    \cup { [ExpenseBase EXCEPT !.category = Str("")] }
    \cup { [ExpenseBase EXCEPT !.campaignId = c] :
             c \in RefInputs(db.campaigns) \cup {Null} }

DonationBodies ==
    { [amount |-> Num(500), donorId |-> x, campaignId |-> Undefined] :
        x \in RefInputs(db.donors) \cup {Undefined, Str("")} }
    \cup { [amount |-> Num(500), donorId |-> x, campaignId |-> c] :
             x \in RowIds(db.donors),
             c \in RefInputs(db.campaigns) \cup {Null} }
    \cup { [amount |-> a, donorId |-> x, campaignId |-> Undefined] :
             a \in AmountInputs, x \in RefInputs(db.donors) }

CampaignBase ==
    [name |-> Str("Relief"), description |-> Undefined,
     targetAmount |-> Undefined, status |-> Undefined]
CampaignBodies ==
    { CampaignBase, [CampaignBase EXCEPT !.name = Str("")] }
    \cup { [CampaignBase EXCEPT !.targetAmount = a] :
             a \in {Num(-5), Num(0), Num(1000)} }
    \cup { [CampaignBase EXCEPT !.status = x] :
             x \in {Str("ACTIVE"), Str("PAUSED"), Str("ARCHIVED")} }

DonorBase ==
    [name |-> Str("Asha"), email |-> Undefined, phone |-> Undefined,
     address |-> Undefined]
DonorBodies ==
    { DonorBase, [DonorBase EXCEPT !.name = Str("")] }
    \cup { [DonorBase EXCEPT !.email = x] :
             x \in {Str("asha@example.org"), Str("not-an-email")} }

BeneficiaryBase ==
    [name |-> Str("Ravi"), description |-> Undefined,
     contactInfo |-> Undefined]
BeneficiaryBodies ==
    { BeneficiaryBase, [BeneficiaryBase EXCEPT !.name = Undefined],
      [BeneficiaryBase EXCEPT !.contactInfo = Num(5)] }

\* the step just taken
Step(path, header, body, mw, handled, sent, queries, out) ==
    [path |-> path, header |-> header, body |-> body, mw |-> mw,
     handled |-> handled, sent |-> sent, queries |-> queries, out |-> out]

\* no request is being served
Idle == Step("idle", NoHeader, NoBody, NoMiddleware, FALSE, <<>>, 0,
             Undefined)

\* One request served from arrival to response
Serve(path, header, body) ==
    LET r == Route(path)
        mw == IF Matching(path) = {} THEN Unrouted
              ELSE RunMiddleware(r.middleware, header, now)
        handled == mw.next > 0
    IN  \E h \in (IF handled THEN Handle(r.handler, body, db, nextId, now)
                  ELSE { Res(0, Undefined, db, nextId, 0) }) :
            /\ h.nextId <= MaxRecords
            /\ IF h.tokens \subseteq issued THEN TRUE
               ELSE Cardinality(issued \cup h.tokens) <= MaxTokens
            /\ db' = h.db
            /\ nextId' = h.nextId
            /\ issued' = issued \cup h.tokens
            /\ now' = now
            /\ last' = Step(path, header, body, mw, handled,
                            mw.sent \o (IF handled THEN <<h.status>>
                                        ELSE <<>>),
                            h.queries, h.out)
            /\ UNCHANGED <<stats, client, ui>>

\* a stranger sends the base body; a token holder sends any body
Requests(bodies, base) ==
    (HolderHeaders \X bodies) \cup (StrangerHeaders(now) \X {base})

PostAuthLogin ==
    /\ last = Idle
    /\ \E body \in LoginBodies : Serve("POST /auth/login", NoHeader, body)

GetDashboardStats ==
    /\ last = Idle
    /\ \E q \in Requests({NoBody}, NoBody) :
        Serve("GET /dashboard/stats", q[1], q[2])

GetExpenses ==
    /\ last = Idle
    /\ \E q \in Requests({NoBody}, NoBody) : Serve("GET /expenses", q[1], q[2])

PostExpenses ==
    /\ last = Idle
    /\ \E q \in Requests(ExpenseBodies, ExpenseBase) :
        Serve("POST /expenses", q[1], q[2])

GetDonations ==
    /\ last = Idle
    /\ \E q \in Requests({NoBody}, NoBody) : Serve("GET /donations", q[1], q[2])

PostDonations ==
    /\ last = Idle
    /\ \E q \in Requests(DonationBodies, NoBody) :
        Serve("POST /donations", q[1], q[2])

GetCampaigns ==
    /\ last = Idle
    /\ \E q \in Requests({NoBody}, NoBody) : Serve("GET /campaigns", q[1], q[2])

PostCampaigns ==
    /\ last = Idle
    /\ \E q \in Requests(CampaignBodies, CampaignBase) :
        Serve("POST /campaigns", q[1], q[2])

GetDonors ==
    /\ last = Idle
    /\ \E q \in Requests({NoBody}, NoBody) : Serve("GET /donors", q[1], q[2])

PostDonors ==
    /\ last = Idle
    /\ \E q \in Requests(DonorBodies, DonorBase) :
        Serve("POST /donors", q[1], q[2])

GetBeneficiaries ==
    /\ last = Idle
    /\ \E q \in Requests({NoBody}, NoBody) :
        Serve("GET /beneficiaries", q[1], q[2])

PostBeneficiaries ==
    /\ last = Idle
    /\ \E q \in Requests(BeneficiaryBodies, BeneficiaryBase) :
        Serve("POST /beneficiaries", q[1], q[2])

GetExportExpenses ==
    /\ last = Idle
    /\ \E q \in Requests({NoBody}, NoBody) :
        Serve("GET /export/expenses", q[1], q[2])

PostApiExpenses ==
    /\ last = Idle
    /\ \E q \in Requests(ExpenseBodies, ExpenseBase) :
        Serve("POST /api/expenses", q[1], q[2])

PostApiDonations ==
    /\ last = Idle
    /\ \E q \in Requests(DonationBodies, NoBody) :
        Serve("POST /api/donations", q[1], q[2])

PostApiCampaigns ==
    /\ last = Idle
    /\ \E q \in Requests(CampaignBodies, CampaignBase) :
        Serve("POST /api/campaigns", q[1], q[2])

PostApiDonors ==
    /\ last = Idle
    /\ \E q \in Requests(DonorBodies, DonorBase) :
        Serve("POST /api/donors", q[1], q[2])

PostApiBeneficiaries ==
    /\ last = Idle
    /\ \E q \in Requests(BeneficiaryBodies, BeneficiaryBase) :
        Serve("POST /api/beneficiaries", q[1], q[2])

\* a request whose path names a record: req.params.id and req.body
WithId(id, body) == [id |-> id, data |-> body]

\* api.updateExpense(id, data): PUT /expenses/:id
PutExpensesId ==
    /\ last = Idle
    /\ \E q \in Requests({ExpenseBase, [ExpenseBase EXCEPT !.amount = Num(0)]},
                         ExpenseBase) :
         \E id \in RefInputs(db.expenses) :
           Serve("PUT /expenses/:id", q[1], WithId(id, q[2]))

\* api.deleteExpense(id): DELETE /expenses/:id
DeleteExpensesId ==
    /\ last = Idle
    /\ \E q \in Requests({NoBody}, NoBody) :
         \E id \in RefInputs(db.expenses) :
           Serve("DELETE /expenses/:id", q[1], WithId(id, q[2]))

\* a statement run on the store directly (no route of the API deletes): the
\* id of the row deleted and the ids of the rows that referenced it
Statement(sql, id, d) ==
    Step(sql, NoHeader, NoBody, NoMiddleware, FALSE, <<>>, 1,
         [id |-> id,
          donations |-> { r.id : r \in { x \in d.donations :
                                          id \in {x.donorId, x.campaignId} } },
          expenses |-> { r.id : r \in { x \in d.expenses :
                                         x.campaignId = id } }])

\* a row of donors deleted in the store
DeleteDonor ==
    /\ last = Idle
    /\ \E id \in RowIds(db.donors) :
           /\ db' = donorDelete(id, db)
           /\ last' = Statement("DELETE FROM donors", id, db)
    /\ UNCHANGED <<now, nextId, issued, stats, client, ui>>

\* a row of campaigns deleted in the store
DeleteCampaign ==
    /\ last = Idle
    /\ \E id \in RowIds(db.campaigns) :
           /\ db' = campaignDelete(id, db)
           /\ last' = Statement("DELETE FROM campaigns", id, db)
    /\ UNCHANGED <<now, nextId, issued, stats, client, ui>>

\* time passes
Tick ==
    /\ last = Idle
    /\ now < MaxTime
    /\ now' = now + 1
    /\ UNCHANGED <<db, nextId, issued, last, stats, client, ui>>

\* the response has gone out; the server takes the next request
Finish ==
    /\ last # Idle
    /\ last' = Idle
    /\ UNCHANGED <<now, db, nextId, issued, stats, client, ui>>

\* A store that a previous run of the server left behind: one donor and one
\* campaign
SeededDb ==
    [EmptyDb EXCEPT
        !.donors = { [id |-> Str("donor-0"), name |-> Str("Asha"),
                      email |-> Null, phone |-> Null, address |-> Null,
                      createdAt |-> 0, updatedAt |-> 0] },
        !.campaigns = { [id |-> Str("campaign-0"), name |-> Str("Relief"),
                         description |-> Null, targetAmount |-> Null,
                         status |-> Str("ACTIVE"),
                         createdAt |-> 0, updatedAt |-> 0] }]

InitialStores == { EmptyDb, SeededDb }

Init ==
    /\ now = 0
    /\ db \in InitialStores
    /\ nextId = 0
    /\ issued = {}
    /\ last = Idle
    /\ stats = NoStats
    /\ client = FreshClient
    /\ ui = NoUi

Requesting ==
    \/ PostAuthLogin
    \/ GetDashboardStats
    \/ GetExpenses
    \/ PostExpenses
    \/ GetDonations
    \/ PostDonations
    \/ GetCampaigns
    \/ PostCampaigns
    \/ GetDonors
    \/ PostDonors
    \/ GetBeneficiaries
    \/ PostBeneficiaries
    \/ GetExportExpenses
    \/ PostApiExpenses
    \/ PostApiDonations
    \/ PostApiCampaigns
    \/ PostApiDonors
    \/ PostApiBeneficiaries

\* The API over the store, at one moment of time
Next ==
    \/ Requesting
    \/ PutExpensesId
    \/ DeleteExpensesId
    \/ DeleteDonor
    \/ DeleteCampaign
    \/ Finish

Spec == Init /\ [][Next]_vars

\* The API as time passes, from an empty store
InitClock == Init /\ db = EmptyDb

NextClock ==
    \/ Requesting
    \/ DeleteDonor
    \/ DeleteCampaign
    \/ Tick
    \/ Finish

SpecClock == InitClock /\ [][NextClock]_vars

\* GET /dashboard/stats with a valid token: the handler starts its queries
StatsRequest ==
    /\ last = Idle
    /\ ~stats.active
    /\ \E header \in HolderHeaders :
           RunMiddleware(Route("GET /dashboard/stats").middleware,
                         header, now).next > 0
    /\ stats' = statsStarted
    /\ UNCHANGED <<now, db, nextId, issued, last, client, ui>>

\* one sub-query comes back from the store with its rows, or fails
StatsSettle ==
    /\ last = Idle
    /\ stats.active
    /\ \E q \in stats.pending :
         \E outcome \in SubQuery(q, db) \cup { Rejection } :
           stats' = statsSettled(stats, q, outcome)
    /\ UNCHANGED <<now, db, nextId, issued, last, client, ui>>

\* all sub-queries have settled and the request is over
StatsDone ==
    /\ last = Idle
    /\ stats.active
    /\ stats.pending = {}
    /\ stats' = NoStats
    /\ UNCHANGED <<now, db, nextId, issued, last, client, ui>>

\* The dashboard request among writes of other requests
InitStats ==
    /\ now = 0
    /\ db = SeededDb
    /\ nextId = 0
    /\ issued = { sign("admin", JWT_SECRET, 0) }
    /\ last = Idle
    /\ stats = NoStats
    /\ client = FreshClient
    /\ ui = NoUi

NextStats ==
    \/ StatsRequest
    \/ StatsSettle
    \/ StatsDone
    \/ PostDonations
    \/ PostExpenses
    \/ DeleteCampaign
    \/ Finish

SpecStats == InitStats /\ [][NextStats]_vars

\* Deletions in a store of two Donors and two Campaigns, whose Donations and
\* Expenses reference them in every way
SecondDonor ==
    [id |-> Str("donor-1"), name |-> Str("Bina"), email |-> Null,
     phone |-> Null, address |-> Null, createdAt |-> 0, updatedAt |-> 0]

SecondCampaign ==
    [id |-> Str("campaign-1"), name |-> Str("School"), description |-> Null,
     targetAmount |-> Null, status |-> Str("PAUSED"),
     createdAt |-> 0, updatedAt |-> 0]

PairedDb ==
    [SeededDb EXCEPT !.donors = @ \cup { SecondDonor },
                     !.campaigns = @ \cup { SecondCampaign }]

DependentDonation(i, donor, campaign) ==
    [id |-> Str("donation-" \o ToString(i)), amount |-> Num(100 * i),
     donorId |-> donor, campaignId |-> campaign,
     createdAt |-> 0, updatedAt |-> 0]

DependentExpense(i, campaign) ==
    [id |-> Str("expense-" \o ToString(i)), description |-> Str("Food"),
     amount |-> Num(10 * i), category |-> Str("Food"),
     campaignId |-> campaign, createdAt |-> 0, updatedAt |-> 0]

InitCascade ==
    /\ now = 0
    /\ \E dn \in [1..MaxRecords -> RowIds(PairedDb.donors)],
          dc \in [1..MaxRecords -> RowIds(PairedDb.campaigns) \cup {Null}],
          ec \in [1..MaxRecords -> RowIds(PairedDb.campaigns) \cup {Null}] :
           db = [PairedDb EXCEPT
                   !.donations = { DependentDonation(i, dn[i], dc[i]) :
                                     i \in 1..MaxRecords },
                   !.expenses = { DependentExpense(i, ec[i]) :
                                    i \in 1..MaxRecords }]
    /\ nextId = 0
    /\ issued = { sign("admin", JWT_SECRET, 0) }
    /\ last = Idle
    /\ stats = NoStats
    /\ client = FreshClient
    /\ ui = NoUi

NextCascade ==
    \/ DeleteDonor
    \/ DeleteCampaign
    \/ GetDonations
    \/ GetDashboardStats
    \/ Finish

SpecCascade == InitCascade /\ [][NextCascade]_vars

----------------------------------------------------------------------------
(* The components of the browser and their requests *)

\* the body that authenticateToken sends when it answers itself; Express's
\* own 404 page is not JSON
rejectionBody(status) ==
    CASE status = 401 -> Str("Access token required")
      [] status = 403 -> Str("Invalid token")
      [] OTHER -> Undefined

\* what the server may answer to a request in the present state, and what
\* the request does to the store
Answers(path, header, body) ==
    LET r == Route(path)
        mw == IF Matching(path) = {} THEN Unrouted
              ELSE RunMiddleware(r.middleware, header, now)
    IN  IF mw.next > 0
        THEN { [status |-> h.status, out |-> h.out, db |-> h.db,
                nextId |-> h.nextId, tokens |-> h.tokens, mw |-> mw,
                queries |-> h.queries] :
                 h \in Handle(r.handler, body, db, nextId, now) }
        ELSE { [status |-> mw.sent[1], out |-> rejectionBody(mw.sent[1]),
                db |-> db, nextId |-> nextId, tokens |-> {}, mw |-> mw,
                queries |-> 0] }

\* ApiClient.request up to its fetch: the request as it leaves the browser
request(c, path, body) ==
    [path |-> path, header |-> clientHeader(c), body |-> body,
     state |-> "sent", status |-> 0, out |-> Undefined]

\* the request with the server's answer
answered(call, a) ==
    [call EXCEPT !.state = "answered", !.status = a.status, !.out = a.out]

\* response.ok
Ok(call) == call.status \in 200..299

\* throw new Error(error.error || 'Request failed'), with 'Network error'
\* for a body that is not JSON
thrown(call) ==
    IF IsUndefined(call.out) THEN Str("Network error")
    ELSE IF IsString(call.out) /\ call.out.v # "" THEN call.out
    ELSE Str("Request failed")

\* a promise that was rejected with an error
Thrown(err) == [state |-> "rejected", value |-> err]

\* a handler of a component stopped at its await, with the requests it
\* waits for and the values it captured
Task(id, owner, handler, calls, ctx) ==
    [id |-> id, owner |-> owner, handler |-> handler, calls |-> calls,
     ctx |-> ctx, result |-> Unsettled]

\* the awaited promise after one more answer: await of one request, or
\* Promise.all of several (rejected by the first failure, fulfilled with all
\* the values)
awaited(task, calls) ==
    IF task.result # Unsettled THEN task.result
    ELSE IF \E i \in DOMAIN calls :
                calls[i].state = "answered" /\ ~Ok(calls[i])
         THEN Thrown(thrown(calls[CHOOSE i \in DOMAIN calls :
                                     calls[i].state = "answered"
                                     /\ ~Ok(calls[i])]))
         ELSE IF \A i \in DOMAIN calls : calls[i].state = "answered"
              THEN Fulfilled([i \in DOMAIN calls |-> calls[i].out])
              ELSE Unsettled

\* the i-th request of a task is answered
taskAnswered(task, i, a) ==
    LET calls == [task.calls EXCEPT ![i] = answered(@, a)]
    IN  [task EXCEPT !.calls = calls, !.result = awaited(task, calls)]

\* a handler reaches its await: the requests go out
await(u, owner, handler, calls, ctx) ==
    [u EXCEPT !.started = @ + 1,
              !.tasks = @ \cup { Task(u.started + 1, owner, handler, calls,
                                      ctx) }]

\* formData.x || undefined
OrUndefined(x) == IF IsString(x) /\ x.v = "" THEN Undefined ELSE x

\* the amounts that are typed into a form
AmountTexts == { "-5", "0", "500" }

\* parseFloat of a form field; NaN leaves JSON.stringify as null
parseFloat(x) ==
    IF x.v = "500" THEN Num(500)
    ELSE IF x.v = "0" THEN Num(0)
    ELSE IF x.v = "-5" THEN Num(0 - 5)
    ELSE Null

\* amount.toString()
toString(x) == Str(ToString(x.v))

\* AuthGate.handleSubmit up to its await of api.login
AuthGate_handleSubmit(u, c, body) ==
    await([u EXCEPT !.gate.loading = TRUE, !.gate.error = Str("")],
          "AuthGate", "AuthGate.handleSubmit",
          <<request(c, "POST /auth/login", body)>>, Null)

\* ApiClient.login after its request, then the rest of AuthGate.handleSubmit:
\* on success the token is stored and onAuthenticated runs (the App then
\* renders the Dashboard); on failure the message is shown; finally the
\* loading flag is cleared
AuthGate_handleSubmitThen(u, c, task) ==
    IF task.result.state = "fulfilled"
    THEN LET response == task.result.value[1]
             c1 == handleAuthenticated(setToken(c, response.token),
                                       response.username)
         IN  [client |-> c1, ui |-> render(c1, u)]
    ELSE [client |-> c,
          ui |-> IF u.gate.mounted
                 THEN [u EXCEPT !.gate.error = task.result.value,
                                !.gate.loading = FALSE]
                 ELSE u]

\* the managers as they mount, each with its mount effect still to run
BeneficiaryManagerMounted ==
    [mounted |-> TRUE, view |-> "beneficiaries", beneficiaries |-> <<>>,
     loading |-> TRUE, dialogOpen |-> FALSE,
     formData |-> [name |-> Str(""), description |-> Str(""),
                   contactInfo |-> Str("")],
     effects |-> 1]

CampaignManagerMounted ==
    [mounted |-> TRUE, view |-> "campaigns", campaigns |-> <<>>,
     loading |-> TRUE, dialogOpen |-> FALSE,
     formData |-> [name |-> Str(""), description |-> Str(""),
                   targetAmount |-> Str(""), status |-> Str("ACTIVE")],
     effects |-> 1]

DonorManagerMounted ==
    [mounted |-> TRUE, view |-> "donors", donors |-> <<>>,
     campaigns |-> <<>>, loading |-> TRUE, dialogOpen |-> FALSE,
     addingDonor |-> TRUE, addingDonationFor |-> Null,
     formData |-> [name |-> Str(""), email |-> Str(""), phone |-> Str(""),
                   address |-> Str("")],
     donationData |-> [amount |-> Str(""), campaignId |-> Str("")],
     error |-> Null, formError |-> Null, effects |-> 1]

ExpenseManagerMounted ==
    [mounted |-> TRUE, view |-> "expenses", expenses |-> <<>>,
     campaigns |-> <<>>, loading |-> TRUE, dialogOpen |-> FALSE,
     editingExpense |-> Null, error |-> Null,
     formData |-> [description |-> Str(""), amount |-> Str(""),
                   category |-> Str(""), campaignId |-> Str("")],
     effects |-> 1]

\* BeneficiaryManager.loadBeneficiaries up to its await
loadBeneficiaries(u, c) ==
    await(u, "Manager", "loadBeneficiaries",
          <<request(c, "GET /beneficiaries", NoBody)>>, Null)

\* BeneficiaryManager.loadBeneficiaries after its await: a failure is only
\* logged
loadBeneficiariesThen(u, c, task) ==
    LET m == u.manager
        m1 == IF task.result.state = "fulfilled"
              THEN [m EXCEPT !.beneficiaries = task.result.value[1]] ELSE m
    IN  [client |-> c, ui |-> [u EXCEPT !.manager = [m1 EXCEPT
                                                       !.loading = FALSE]]]

\* BeneficiaryManager.handleSubmit up to its await
BeneficiaryManager_handleSubmit(u, c) ==
    LET f == u.manager.formData
        data == [name |-> f.name, description |-> OrUndefined(f.description),
                 contactInfo |-> OrUndefined(f.contactInfo)]
    IN  await(u, "Manager", "BeneficiaryManager.handleSubmit",
              <<request(c, "POST /beneficiaries", data)>>, Null)

\* (variant: the list is fetched again whether the create succeeded or not)
BeneficiaryManager_handleSubmitThenAlways(u, c, task) ==
    [client |-> c, ui |-> loadBeneficiaries(u, c)]

\* BeneficiaryManager.handleSubmit after its await: on success the dialog
\* closes, the form is reset and the list is loaded again; a failure is only
\* logged
BeneficiaryManager_handleSubmitThen(u, c, task) ==
    IF task.result.state = "fulfilled"
    THEN [client |-> c,
          ui |-> loadBeneficiaries(
                     [u EXCEPT !.manager.dialogOpen = FALSE,
                               !.manager.formData =
                                   BeneficiaryManagerMounted.formData], c)]
    ELSE [client |-> c, ui |-> u]

\* CampaignManager.loadCampaigns up to its await
loadCampaigns(u, c) ==
    await(u, "Manager", "loadCampaigns",
          <<request(c, "GET /campaigns", NoBody)>>, Null)

\* CampaignManager.loadCampaigns after its await
loadCampaignsThen(u, c, task) ==
    LET m == u.manager
        m1 == IF task.result.state = "fulfilled"
              THEN [m EXCEPT !.campaigns = task.result.value[1]] ELSE m
    IN  [client |-> c, ui |-> [u EXCEPT !.manager = [m1 EXCEPT
                                                       !.loading = FALSE]]]

\* CampaignManager.handleSubmit up to its await
CampaignManager_handleSubmit(u, c) ==
    LET f == u.manager.formData
        data == [name |-> f.name, description |-> OrUndefined(f.description),
                 targetAmount |-> IF f.targetAmount.v # ""
                                  THEN parseFloat(f.targetAmount)
                                  ELSE Undefined,
                 status |-> f.status]
    IN  await(u, "Manager", "CampaignManager.handleSubmit",
              <<request(c, "POST /campaigns", data)>>, Null)

\* CampaignManager.handleSubmit after its await
CampaignManager_handleSubmitThen(u, c, task) ==
    IF task.result.state = "fulfilled"
    THEN [client |-> c,
          ui |-> loadCampaigns(
                     [u EXCEPT !.manager.dialogOpen = FALSE,
                               !.manager.formData =
                                   CampaignManagerMounted.formData], c)]
    ELSE [client |-> c, ui |-> u]

\* DonorManager.loadData up to its await of both lists
DonorManager_loadData(u, c) ==
    await([u EXCEPT !.manager.loading = TRUE, !.manager.error = Null],
          "Manager", "DonorManager.loadData",
          <<request(c, "GET /donors", NoBody),
            request(c, "GET /campaigns", NoBody)>>, Null)

\* DonorManager.loadData after its await: a failure shows a fixed message
DonorManager_loadDataThen(u, c, task) ==
    LET m == u.manager
        m1 == IF task.result.state = "fulfilled"
              THEN [m EXCEPT !.donors = task.result.value[1],
                             !.campaigns = task.result.value[2]]
              ELSE [m EXCEPT !.error = Str(
                  "Failed to load donors or campaigns. Please try again.")]
    IN  [client |-> c, ui |-> [u EXCEPT !.manager = [m1 EXCEPT
                                                       !.loading = FALSE]]]

\* DonorManager.handleAddDonorSubmit up to its await
handleAddDonorSubmit(u, c) ==
    LET f == u.manager.formData
        data == [name |-> f.name, email |-> OrUndefined(f.email),
                 phone |-> OrUndefined(f.phone),
                 address |-> OrUndefined(f.address)]
    IN  await([u EXCEPT !.manager.formError = Null],
              "Manager", "handleAddDonorSubmit",
              <<request(c, "POST /donors", data)>>, Null)

\* DonorManager.handleAddDonorSubmit after its await
handleAddDonorSubmitThen(u, c, task) ==
    IF task.result.state = "fulfilled"
    THEN [client |-> c,
          ui |-> DonorManager_loadData(
                     [u EXCEPT !.manager.dialogOpen = FALSE,
                               !.manager.formData =
                                   DonorManagerMounted.formData], c)]
    ELSE [client |-> c,
          ui |-> [u EXCEPT !.manager.formError = task.result.value]]

\* DonorManager.handleAddDonationSubmit up to its await; an amount that is
\* not a positive number is refused in the browser
handleAddDonationSubmit(u, c) ==
    LET m == [u.manager EXCEPT !.formError = Null]
        amountFloat == parseFloat(m.donationData.amount)
        donationPayload ==
            [amount |-> amountFloat, donorId |-> m.addingDonationFor.id,
             campaignId |-> OrUndefined(m.donationData.campaignId)]
    IN  IF m.addingDonationFor = Null THEN [u EXCEPT !.manager = m]
        ELSE IF ~IsNumber(amountFloat) \/ amountFloat.v <= 0
             THEN [u EXCEPT !.manager = [m EXCEPT !.formError =
                       Str("Please enter a valid positive amount.")]]
             ELSE await([u EXCEPT !.manager = m],
                        "Manager", "handleAddDonationSubmit",
                        <<request(c, "POST /donations", donationPayload)>>,
                        Null)

\* DonorManager.handleAddDonationSubmit after its await
handleAddDonationSubmitThen(u, c, task) ==
    IF task.result.state = "fulfilled"
    THEN [client |-> c,
          ui |-> DonorManager_loadData(
                     [u EXCEPT !.manager.dialogOpen = FALSE,
                               !.manager.addingDonationFor = Null,
                               !.manager.donationData =
                                   DonorManagerMounted.donationData], c)]
    ELSE [client |-> c,
          ui |-> [u EXCEPT !.manager.formError = task.result.value]]

\* DonorManager.openAddDonorDialog
openAddDonorDialog(m) ==
    [m EXCEPT !.addingDonor = TRUE,
              !.formData = DonorManagerMounted.formData,
              !.formError = Null, !.dialogOpen = TRUE]

\* DonorManager.openDonationDialog
openDonationDialog(m, donor) ==
    [m EXCEPT !.addingDonationFor = donor, !.addingDonor = FALSE,
              !.donationData = DonorManagerMounted.donationData,
              !.formError = Null, !.dialogOpen = TRUE]

\* DonorManager.handleDialogClose
handleDialogClose(m) ==
    [m EXCEPT !.dialogOpen = FALSE, !.addingDonationFor = Null,
              !.formError = Null]

\* ExpenseManager.loadData up to its await of both lists
ExpenseManager_loadData(u, c) ==
    await(u, "Manager", "ExpenseManager.loadData",
          <<request(c, "GET /expenses", NoBody),
            request(c, "GET /campaigns", NoBody)>>, Null)

\* ExpenseManager.loadData after its await: a failure is only logged
ExpenseManager_loadDataThen(u, c, task) ==
    LET m == u.manager
        m1 == IF task.result.state = "fulfilled"
              THEN [m EXCEPT !.expenses = task.result.value[1],
                             !.campaigns = task.result.value[2]]
              ELSE m
    IN  [client |-> c, ui |-> [u EXCEPT !.manager = [m1 EXCEPT
                                                       !.loading = FALSE]]]

\* ExpenseManager.handleSubmit up to its await: an update of the Expense
\* being edited, or a create
ExpenseManager_handleSubmit(u, c) ==
    LET m == u.manager
        f == m.formData
        data == [description |-> f.description,
                 amount |-> parseFloat(f.amount),
                 category |-> f.category,
                 campaignId |-> OrUndefined(f.campaignId)]
    IN  await([u EXCEPT !.manager.error = Null],
              "Manager", "ExpenseManager.handleSubmit",
              <<IF m.editingExpense # Null
                THEN request(c, "PUT /expenses/:id",
                             WithId(m.editingExpense.id, data))
                ELSE request(c, "POST /expenses", data)>>, Null)

\* ExpenseManager.handleSubmit after its await
ExpenseManager_handleSubmitThen(u, c, task) ==
    IF task.result.state = "fulfilled"
    THEN [client |-> c,
          ui |-> ExpenseManager_loadData(
                     [u EXCEPT !.manager.dialogOpen = FALSE,
                               !.manager.editingExpense = Null,
                               !.manager.formData =
                                   ExpenseManagerMounted.formData], c)]
    ELSE [client |-> c,
          ui |-> [u EXCEPT !.manager.error = task.result.value]]

\* ExpenseManager.handleEdit
handleEdit(m, expense) ==
    [m EXCEPT !.editingExpense = expense,
              !.formData = [description |-> expense.description,
                            amount |-> toString(expense.amount),
                            category |-> expense.category,
                            campaignId |-> IF IsString(expense.campaignId)
                                           THEN expense.campaignId
                                           ELSE Str("")],
              !.dialogOpen = TRUE]

\* ExpenseManager.handleDelete, once the user has confirmed
handleDelete(u, c, id) ==
    await(u, "Manager", "handleDelete",
          <<request(c, "DELETE /expenses/:id", WithId(id, NoBody))>>, Null)

\* ExpenseManager.handleDelete after its await
handleDeleteThen(u, c, task) ==
    IF task.result.state = "fulfilled"
    THEN [client |-> c, ui |-> ExpenseManager_loadData(u, c)]
    ELSE [client |-> c,
          ui |-> [u EXCEPT !.manager.error = task.result.value]]

\* the Cancel button of the expense dialog: setDialogOpen(false)
Cancel(m) == [m EXCEPT !.dialogOpen = FALSE]

\* the expense Dialog's onOpenChange: the 'Add Expense' trigger calls it
\* with true; the close button, Escape and a click outside with false
onOpenChange(m, open) ==
    IF open THEN [m EXCEPT !.dialogOpen = TRUE]
    ELSE [m EXCEPT !.dialogOpen = FALSE, !.editingExpense = Null,
                   !.formData = ExpenseManagerMounted.formData,
                   !.error = Null]

\* the mount effect of the manager on screen
managerEffect(u, c) ==
    LET u1 == [u EXCEPT !.manager.effects = 0]
    IN  CASE u.manager.view = "beneficiaries" -> loadBeneficiaries(u1, c)
          [] u.manager.view = "campaigns" -> loadCampaigns(u1, c)
          [] u.manager.view = "donors" -> DonorManager_loadData(u1, c)
          [] u.manager.view = "expenses" -> ExpenseManager_loadData(u1, c)

\* the form of the manager on screen is submitted
managerSubmit(u, c) ==
    CASE u.manager.view = "beneficiaries" ->
             BeneficiaryManager_handleSubmit(u, c)
      [] u.manager.view = "campaigns" -> CampaignManager_handleSubmit(u, c)
      [] u.manager.view = "donors" ->
             IF u.manager.addingDonor THEN handleAddDonorSubmit(u, c)
             ELSE handleAddDonationSubmit(u, c)
      [] u.manager.view = "expenses" -> ExpenseManager_handleSubmit(u, c)

\* what the user types into the form on screen (every required field
\* filled in): the onChange handlers store it
Typed(m) ==
    CASE m.view = "beneficiaries" ->
             { [m EXCEPT !.formData.name = Str("Ravi")] }
      [] m.view = "campaigns" ->
             { [m EXCEPT !.formData.name = Str("Relief"),
                         !.formData.targetAmount = Str(a)] :
                 a \in {"", "0"} }
      [] m.view = "donors" ->
             IF m.addingDonor
             THEN { [m EXCEPT !.formData.name = Str("Asha"),
                              !.formData.email = Str(e)] :
                      e \in {"", "not-an-email"} }
             ELSE { [m EXCEPT !.donationData.amount = Str(a)] :
                      a \in {"0", "500"} }
      [] m.view = "expenses" ->
             { [m EXCEPT !.formData.description = Str("Food"),
                         !.formData.category = Str("Food"),
                         !.formData.amount = Str(a)] :
                 a \in {"0", "500"} }

\* the required fields of the form on screen are filled in
Filled(m) ==
    CASE m.view = "donors" /\ ~m.addingDonor -> m.donationData.amount.v # ""
      [] m.view = "expenses" ->
             /\ m.formData.description.v # ""
             /\ m.formData.amount.v # ""
             /\ m.formData.category.v # ""
      [] OTHER -> m.formData.name.v # ""

\* the rows of the list that the manager displays
Displayed(m) ==
    CASE m.view = "beneficiaries" -> m.beneficiaries
      [] m.view = "campaigns" -> m.campaigns
      [] m.view = "donors" -> m.donors
      [] m.view = "expenses" -> m.expenses
      [] OTHER -> <<>>

\* the error messages that the manager renders: none in the beneficiary and
\* campaign views; in the donor view the general error above the list and
\* the form error inside the open dialog; in the expense view the error,
\* above the table and inside the open dialog
ShownErrors(m) ==
    CASE m.view = "donors" ->
             { m.error }
             \cup (IF m.dialogOpen THEN { m.formError } ELSE {})
      [] m.view = "expenses" -> { m.error }
      [] OTHER -> {}

\* the view offers to repeat the load (the Retry button beside the donor
\* view's general error) or the submit (the form is still open)
RetryOffered(m, load) ==
    IF load THEN m.view = "donors" /\ m.error # Null
    ELSE m.dialogOpen

\* the tabs of the Dashboard
Tabs == { "dashboard", "expenses", "donors", "campaigns", "beneficiaries" }

\* the manager that the Dashboard renders under a tab
ManagerOf(tab) ==
    CASE tab = "expenses" -> ExpenseManagerMounted
      [] tab = "donors" -> DonorManagerMounted
      [] tab = "campaigns" -> CampaignManagerMounted
      [] tab = "beneficiaries" -> BeneficiaryManagerMounted
      [] OTHER -> Unmounted

\* Dashboard.loadDashboardStats up to its await
loadDashboardStats(u, c) ==
    await(u, "Dashboard", "loadDashboardStats",
          <<request(c, "GET /dashboard/stats", NoBody)>>,
          [isInitialLoad |-> u.dashboard.stats = Null /\ u.dashboard.loading])

\* (variant: a failed fetch logs the user out)
loadDashboardStatsThenLogout(u, c, task) ==
    IF task.result.state = "fulfilled"
    THEN [client |-> c,
          ui |-> [u EXCEPT !.dashboard.stats = task.result.value[1],
                           !.dashboard.loading = FALSE]]
    ELSE [client |-> handleLogout(c), ui |-> render(handleLogout(c), u)]

\* (variant: the spinner is stopped only by a fetch that succeeded)
loadDashboardStatsThenOnSuccess(u, c, task) ==
    IF task.result.state = "fulfilled"
    THEN [client |-> c,
          ui |-> [u EXCEPT !.dashboard.stats = task.result.value[1],
                           !.dashboard.loading = FALSE]]
    ELSE [client |-> c, ui |-> u]

\* Dashboard.loadDashboardStats after its await: setStats on success, and
\* setLoading(false) if the call was made during the initial load
loadDashboardStatsThen(u, c, task) ==
    LET d == u.dashboard
        d1 == IF task.result.state = "fulfilled"
              THEN [d EXCEPT !.stats = task.result.value[1]] ELSE d
        d2 == IF task.ctx.isInitialLoad THEN [d1 EXCEPT !.loading = FALSE]
              ELSE d1
    IN  [client |-> c, ui |-> [u EXCEPT !.dashboard = d2]]

\* the two effects of the Dashboard after it has mounted: the first loads
\* the stats, and so does the second as the active tab is the dashboard
dashboardEffects(u, c) ==
    LET u1 == loadDashboardStats([u EXCEPT !.dashboard.effects = 0], c)
    IN  IF u.dashboard.activeTab = "dashboard"
        THEN loadDashboardStats(u1, c) ELSE u1

\* a tab button: setActiveTab, then the render that swaps the manager and
\* the effect that depends on activeTab
setActiveTab(u, c, tab) ==
    IF tab = u.dashboard.activeTab THEN u
    ELSE LET u1 == [u EXCEPT !.dashboard.activeTab = tab,
                             !.manager = ManagerOf(tab),
                             !.tasks = { t \in @ : t.owner = "Dashboard" }]
         IN  IF tab = "dashboard" THEN loadDashboardStats(u1, c) ELSE u1

\* what the Dashboard renders
DashboardView(d) ==
    IF d.loading THEN "spinner"
    ELSE IF d.activeTab # "dashboard" THEN d.activeTab
    ELSE IF d.stats # Null THEN "stats"
    ELSE "failure message"

\* the handler of a task resumes after its await
Resumed(u, c, task) ==
    CASE task.handler = "AuthGate.handleSubmit" ->
             AuthGate_handleSubmitThen(u, c, task)
      [] task.handler = "loadDashboardStats" ->
             loadDashboardStatsThen(u, c, task)
      [] task.handler = "loadBeneficiaries" ->
             loadBeneficiariesThen(u, c, task)
      [] task.handler = "BeneficiaryManager.handleSubmit" ->
             BeneficiaryManager_handleSubmitThen(u, c, task)
      [] task.handler = "loadCampaigns" -> loadCampaignsThen(u, c, task)
      [] task.handler = "CampaignManager.handleSubmit" ->
             CampaignManager_handleSubmitThen(u, c, task)
      [] task.handler = "DonorManager.loadData" ->
             DonorManager_loadDataThen(u, c, task)
      [] task.handler = "handleAddDonorSubmit" ->
             handleAddDonorSubmitThen(u, c, task)
      [] task.handler = "handleAddDonationSubmit" ->
             handleAddDonationSubmitThen(u, c, task)
      [] task.handler = "ExpenseManager.loadData" ->
             ExpenseManager_loadDataThen(u, c, task)
      [] task.handler = "ExpenseManager.handleSubmit" ->
             ExpenseManager_handleSubmitThen(u, c, task)
      [] task.handler = "handleDelete" -> handleDeleteThen(u, c, task)

\* a step of the browser that sends nothing to the server
ClientStep(what) ==
    Step(what, NoHeader, NoBody, NoMiddleware, FALSE, <<>>, 0, Undefined)

\* what the login form submits
FormBodies ==
    { b \in LoginBodies : IsString(b.username) /\ IsString(b.accessKey) }

\* the App mounts: its first effect reads local storage
ClientMount ==
    /\ last = Idle
    /\ client.loading
    /\ client' = checkAuthenticated(client)
    /\ ui' = render(client', ui)
    /\ last' = ClientStep("mount")
    /\ UNCHANGED <<now, db, nextId, issued, stats>>

\* the page is loaded again
ClientReload ==
    /\ last = Idle
    /\ ~client.loading
    /\ client' = pageLoad(client)
    /\ ui' = NoUi
    /\ last' = ClientStep("page load")
    /\ UNCHANGED <<now, db, nextId, issued, stats>>

\* AuthGate.handleSubmit: api.login, then onAuthenticated on success
ClientLogin ==
    /\ last = Idle
    /\ Screen(client) = "AuthGate"
    /\ \E body \in FormBodies : \E h \in login(body, db, nextId, now) :
           /\ Cardinality(issued \cup h.tokens) <= MaxLogins
           /\ issued' = issued \cup h.tokens
           /\ client' = IF h.status = 200
                         THEN handleAuthenticated(
                                  setToken(client, h.out.token),
                                  h.out.username)
                         ELSE client
           /\ ui' = render(client',
                           IF h.status = 200 THEN ui
                           ELSE [ui EXCEPT !.gate.error = h.out])
           /\ last' = Step("POST /auth/login", clientHeader(client), body,
                           NoMiddleware, TRUE, <<h.status>>, h.queries, h.out)
    /\ UNCHANGED <<now, db, nextId, stats>>

\* the Dashboard's logout button
ClientLogout ==
    /\ last = Idle
    /\ Screen(client) = "Dashboard"
    /\ client' = handleLogout(client)
    /\ ui' = render(client', ui)
    /\ last' = ClientStep("logout")
    /\ UNCHANGED <<now, db, nextId, issued, stats>>

\* The browser and the server, and whoever holds a token the server issued
NextClient ==
    \/ ClientMount
    \/ ClientReload
    \/ ClientLogin
    \/ ClientLogout
    \/ GetDonors
    \/ Tick
    \/ Finish

SpecClient == InitClock /\ [][NextClient]_vars

\* a step of the browser in which the handler of a task resumed
ClientResumed(task) == [ClientStep(task.handler) EXCEPT !.body = task]

\* the login form is submitted (the button is disabled while loading)
GateSubmit ==
    /\ last = Idle
    /\ Screen(client) = "AuthGate"
    /\ ui.gate.mounted /\ ~ui.gate.loading
    /\ ui.started < MaxTasks
    /\ \E body \in FormBodies :
           ui' = AuthGate_handleSubmit(ui, client, body)
    /\ last' = ClientStep("submit")
    /\ UNCHANGED <<now, db, nextId, issued, stats, client>>

\* the server answers one of the requests of the browser
Respond ==
    /\ last = Idle
    /\ \E task \in ui.tasks : \E i \in DOMAIN task.calls :
         LET call == task.calls[i]
         IN  /\ call.state = "sent"
             /\ \E a \in Answers(call.path, call.header, call.body) :
                  /\ a.nextId <= MaxRecords
                  /\ Cardinality(issued \cup a.tokens) <= MaxLogins
                  /\ db' = a.db
                  /\ nextId' = a.nextId
                  /\ issued' = issued \cup a.tokens
                  /\ ui' = [ui EXCEPT !.tasks = (@ \ {task})
                                        \cup {taskAnswered(task, i, a)}]
                  /\ last' = Step(call.path, call.header, call.body, a.mw,
                                  a.mw.next > 0, <<a.status>>, a.queries,
                                  a.out)
    /\ UNCHANGED <<now, stats, client>>

\* the answer reaches the browser and the handler that awaited it resumes
Resume ==
    /\ last = Idle
    /\ \E task \in ui.tasks :
         /\ task.result # Unsettled
         /\ LET r == Resumed([ui EXCEPT !.tasks = @ \ {task}], client, task)
            IN  /\ client' = r.client
                /\ ui' = r.ui
         /\ last' = ClientResumed(task)
    /\ UNCHANGED <<now, db, nextId, issued, stats>>

\* The login gate, with the request and its answer as separate steps
NextGate ==
    \/ ClientMount
    \/ ClientReload
    \/ GateSubmit
    \/ Respond
    \/ Resume
    \/ ClientLogout
    \/ Finish

SpecGate == InitClock /\ [][NextGate]_vars

\* the effects of the Dashboard run after its first render
DashboardEffects ==
    /\ last = Idle
    /\ ui.dashboard.mounted /\ ui.dashboard.effects > 0
    /\ ui.started + 2 <= MaxTasks
    /\ ui' = dashboardEffects(ui, client)
    /\ last' = ClientStep("Dashboard effects")
    /\ UNCHANGED <<now, db, nextId, issued, stats, client>>

\* a tab button is clicked (the tabs are rendered once loading is over)
SetActiveTab ==
    /\ last = Idle
    /\ ui.dashboard.mounted /\ ~ui.dashboard.loading
    /\ ui.dashboard.effects = 0
    /\ ui.started < MaxTasks
    /\ \E tab \in Tabs \ {ui.dashboard.activeTab} :
           ui' = setActiveTab(ui, client, tab)
    /\ last' = ClientStep("setActiveTab")
    /\ UNCHANGED <<now, db, nextId, issued, stats, client>>

\* The Dashboard of a user who logged in as admin at time 0, while another
\* holder of that token records Donations
InitDashboard ==
    /\ now = 0
    /\ db = SeededDb
    /\ nextId = 0
    /\ issued = { sign("admin", JWT_SECRET, 0) }
    /\ last = Idle
    /\ stats = NoStats
    /\ client = handleAuthenticated(
                    setToken(checkAuthenticated(FreshClient),
                             sign("admin", JWT_SECRET, 0)),
                    Str("admin"))
    /\ ui = render(client, NoUi)

NextDashboard ==
    \/ DashboardEffects
    \/ SetActiveTab
    \/ Respond
    \/ Resume
    \/ ClientLogout
    \/ PostDonations
    \/ Tick
    \/ Finish

SpecDashboard == InitDashboard /\ [][NextDashboard]_vars

\* the manager on screen accepts clicks: it is rendered and not loading
ManagerReady ==
    /\ last = Idle
    /\ ui.manager.mounted /\ ui.manager.effects = 0 /\ ~ui.manager.loading

\* the mount effect of the manager runs after its first render
ManagerEffect ==
    /\ last = Idle
    /\ ui.manager.mounted /\ ui.manager.effects > 0
    /\ ui' = managerEffect(ui, client)
    /\ last' = ClientStep("effect")
    /\ UNCHANGED <<now, db, nextId, issued, stats, client>>

\* the button that opens the dialog for a new record ('Add Expense' in the
\* expense view), or 'Add Donation' on a donor's card
ManagerOpen ==
    /\ ManagerReady
    /\ ~ui.manager.dialogOpen
    /\ \E m \in
         (CASE ui.manager.view = "donors" ->
                   { openAddDonorDialog(ui.manager) }
                   \cup { openDonationDialog(ui.manager,
                              [id |-> ui.manager.donors[i].row.id,
                               name |-> ui.manager.donors[i].row.name]) :
                            i \in DOMAIN ui.manager.donors }
            [] ui.manager.view = "expenses" ->
                   { onOpenChange(ui.manager, TRUE) }
            [] OTHER -> { [ui.manager EXCEPT !.dialogOpen = TRUE] }) :
           ui' = [ui EXCEPT !.manager = m]
    /\ last' = ClientStep("Add")
    /\ UNCHANGED <<now, db, nextId, issued, stats, client>>

\* the user fills in the form of the open dialog
ManagerType ==
    /\ ManagerReady
    /\ ui.manager.dialogOpen
    /\ \E m \in Typed(ui.manager) \ {ui.manager} :
           ui' = [ui EXCEPT !.manager = m]
    /\ last' = ClientStep("type")
    /\ UNCHANGED <<now, db, nextId, issued, stats, client>>

\* the form of the open dialog is submitted
ManagerSubmit ==
    /\ ManagerReady
    /\ ui.manager.dialogOpen /\ Filled(ui.manager)
    /\ ui.started < MaxTasks
    /\ ui' = managerSubmit(ui, client)
    /\ last' = ClientStep("submit")
    /\ UNCHANGED <<now, db, nextId, issued, stats, client>>

\* the dialog is dismissed (its close button, Escape, a click outside; in
\* the beneficiary, campaign and donor views its Cancel button too)
ManagerClose ==
    /\ ManagerReady
    /\ ui.manager.dialogOpen
    /\ ui' = [ui EXCEPT !.manager =
                 CASE @.view = "donors" -> handleDialogClose(@)
                   [] @.view = "expenses" -> onOpenChange(@, FALSE)
                   [] OTHER -> [@ EXCEPT !.dialogOpen = FALSE]]
    /\ last' = ClientStep("close")
    /\ UNCHANGED <<now, db, nextId, issued, stats, client>>

\* the Cancel button of the expense dialog
ExpenseCancel ==
    /\ ManagerReady
    /\ ui.manager.view = "expenses" /\ ui.manager.dialogOpen
    /\ ui' = [ui EXCEPT !.manager = Cancel(@)]
    /\ last' = ClientStep("Cancel")
    /\ UNCHANGED <<now, db, nextId, issued, stats, client>>

\* the Edit button of a row of the expense table
ExpenseEdit ==
    /\ ManagerReady
    /\ ui.manager.view = "expenses" /\ ~ui.manager.dialogOpen
    /\ \E i \in DOMAIN ui.manager.expenses :
           ui' = [ui EXCEPT !.manager =
                      handleEdit(@, ui.manager.expenses[i].row)]
    /\ last' = ClientStep("Edit")
    /\ UNCHANGED <<now, db, nextId, issued, stats, client>>

\* the Delete button of a row of the expense table, confirmed
ExpenseDeleteClick ==
    /\ ManagerReady
    /\ ui.manager.view = "expenses" /\ ~ui.manager.dialogOpen
    /\ ui.started < MaxTasks
    /\ \E i \in DOMAIN ui.manager.expenses :
           ui' = handleDelete(ui, client, ui.manager.expenses[i].row.id)
    /\ last' = ClientStep("Delete")
    /\ UNCHANGED <<now, db, nextId, issued, stats, client>>

\* a store with a Donor, a Campaign and an Expense
ViewsDb ==
    [SeededDb EXCEPT
        !.expenses = { [DependentExpense(1, Null) EXCEPT
                          !.amount = Num(500)] }]

\* One of the four managers just put on screen by its tab, for a user who
\* logged in as admin at time 0; the token is still valid, or has expired
InitViews ==
    /\ now \in {0, TokenTTL}
    /\ db = ViewsDb
    /\ nextId = 0
    /\ issued = { sign("admin", JWT_SECRET, 0) }
    /\ last = Idle
    /\ stats = NoStats
    /\ client = handleAuthenticated(
                    setToken(checkAuthenticated(FreshClient),
                             sign("admin", JWT_SECRET, 0)),
                    Str("admin"))
    /\ \E tab \in Tabs \ {"dashboard"} :
           ui = [render(client, NoUi) EXCEPT
                    !.dashboard = [DashboardMounted EXCEPT
                                      !.loading = FALSE, !.effects = 0,
                                      !.activeTab = tab],
                    !.manager = ManagerOf(tab)]

NextViews ==
    \/ ManagerEffect
    \/ ManagerOpen
    \/ ManagerType
    \/ ManagerSubmit
    \/ ManagerClose
    \/ ExpenseCancel
    \/ ExpenseEdit
    \/ ExpenseDeleteClick
    \/ Respond
    \/ Resume
    \/ Finish

SpecViews == InitViews /\ [][NextViews]_vars

\* The API used by two callers, one holding admin's token and one staff's
InitRoles ==
    /\ now = 0
    /\ db \in InitialStores
    /\ nextId = 0
    /\ issued = { sign("admin", JWT_SECRET, 0), sign("staff", JWT_SECRET, 0) }
    /\ last = Idle
    /\ stats = NoStats
    /\ client = FreshClient
    /\ ui = NoUi

SpecRoles == InitRoles /\ [][Next]_vars

\* The read side over a store that earlier requests filled with Donations:
\* the i-th was created no earlier than the ones before it
EarlierDonation(i, t) ==
    [id |-> Str("donation-" \o ToString(i)), amount |-> Num(100 * i),
     donorId |-> Str("donor-0"),
     campaignId |-> IF i % 2 = 0 THEN Str("campaign-0") ELSE Null,
     createdAt |-> t, updatedAt |-> t]

CreationTimes(k) ==
    { ts \in [1..k -> 0..MaxTime] :
        \A i, j \in 1..k : i < j => ts[i] <= ts[j] }

InitRecent ==
    /\ now = MaxTime
    /\ \E k \in 0..MaxDonations : \E ts \in CreationTimes(k) :
           db = [SeededDb EXCEPT
                   !.donations = { EarlierDonation(i, ts[i]) : i \in 1..k }]
    /\ nextId = 0
    /\ issued = { sign("admin", JWT_SECRET, MaxTime) }
    /\ last = Idle
    /\ stats = NoStats
    /\ client = FreshClient
    /\ ui = NoUi

NextRecent ==
    \/ GetDashboardStats
    \/ GetDonations
    \/ Finish

SpecRecent == InitRecent /\ [][NextRecent]_vars

----------------------------------------------------------------------------
(* Vocabulary of the properties *)

LoginPath == "POST /auth/login"

\* the step s is a request on a route of the API
Routed(s) == s.path \in { r.path : r \in router \cup server }

\* a request has just been served on a route other than login
ServedProtected == Routed(last) /\ last.path # LoginPath

ServedLogin == last # Idle /\ last.path = LoginPath

\* 24 hours, in ticks
TicksPerDay == 24 \div HoursPerTick

\* the token of the request is one a login signed, and it has not expired
HoldsLiveToken(header, t) ==
    /\ SecondSegment(header) \in issued
    /\ t < SecondSegment(header).exp

\* the request carries nothing the middleware takes for a token
CarriesNoToken(header) ==
    \/ ~header.present
    \/ Len(header.segs) < 2
    \/ header.segs[2] = Text("")

\* the submitted pair is one entry of the allow-list
AllowListed(body) ==
    /\ IsString(body.username)
    /\ IsString(body.accessKey)
    /\ \/ body.username.v = "admin" /\ body.accessKey.v = "ray-hope-2024"
       \/ body.username.v = "staff" /\ body.accessKey.v = "staff-access-2024"

\* both fields are non-empty strings
WellFormedPair(body) ==
    /\ IsString(body.username) /\ body.username.v # ""
    /\ IsString(body.accessKey) /\ body.accessKey.v # ""

EntityOf(path) ==
    CASE path \in {"POST /expenses", "POST /api/expenses"} -> "expenses"
      [] path \in {"POST /donations", "POST /api/donations"} -> "donations"
      [] path \in {"POST /campaigns", "POST /api/campaigns"} -> "campaigns"
      [] path \in {"POST /donors", "POST /api/donors"} -> "donors"
      [] path \in {"POST /beneficiaries", "POST /api/beneficiaries"} ->
             "beneficiaries"
      [] OTHER -> "none"

\* the step s is a create request that reached its handler
CreateHandled(s) == s # Idle /\ EntityOf(s.path) # "none" /\ s.handled

SatisfiesSchema(entity, body) ==
    CASE entity = "expenses" -> expenseSchema(body).ok
      [] entity = "donations" -> donationSchema(body).ok
      [] entity = "campaigns" -> campaignSchema(body).ok
      [] entity = "donors" -> donorSchema(body).ok
      [] entity = "beneficiaries" -> beneficiarySchema(body).ok

\* the donorId and campaignId of the input name rows of the store d
ReferencesExist(entity, body, d) ==
    CASE entity = "expenses" ->
             IsUndefined(body.campaignId)
                 \/ body.campaignId \in RowIds(d.campaigns)
      [] entity = "donations" ->
             /\ body.donorId \in RowIds(d.donors)
             /\ IsUndefined(body.campaignId)
                    \/ body.campaignId \in RowIds(d.campaigns)
      [] OTHER -> TRUE

Submitted(x, stored) == IsUndefined(x) \/ stored = x

\* every submitted field of the input is in the row as submitted
PreservesInput(entity, body, row) ==
    CASE entity = "expenses" ->
             /\ row.description = body.description
             /\ row.amount = body.amount
             /\ row.category = body.category
             /\ Submitted(body.campaignId, row.campaignId)
      [] entity = "donations" ->
             /\ row.amount = body.amount
             /\ row.donorId = body.donorId
             /\ Submitted(body.campaignId, row.campaignId)
      [] entity = "campaigns" ->
             /\ row.name = body.name
             /\ Submitted(body.description, row.description)
             /\ Submitted(body.targetAmount, row.targetAmount)
             /\ Submitted(body.status, row.status)
      [] entity = "donors" ->
             /\ row.name = body.name
             /\ Submitted(body.email, row.email)
             /\ Submitted(body.phone, row.phone)
             /\ Submitted(body.address, row.address)
      [] entity = "beneficiaries" ->
             /\ row.name = body.name
             /\ Submitted(body.description, row.description)
             /\ Submitted(body.contactInfo, row.contactInfo)

ListHandler(entity) ==
    CASE entity = "expenses" -> "getExpenses"
      [] entity = "donations" -> "getDonations"
      [] entity = "campaigns" -> "getCampaigns"
      [] entity = "donors" -> "getDonors"
      [] entity = "beneficiaries" -> "getBeneficiaries"

\* the lists that the entity's list handler may answer over the store d
Lists(entity, d) ==
    { o.out : o \in Handle(ListHandler(entity), NoBody, d, 0, 0) }

ListedRows(l) == { l[i].row : i \in DOMAIN l }

AllIds(d) ==
    RowIds(d.campaigns) \cup RowIds(d.donors) \cup RowIds(d.beneficiaries)
        \cup RowIds(d.donations) \cup RowIds(d.expenses)

\* listing after the create shows the rows listed before, unchanged, and
\* exactly one more, with a fresh id and the submitted fields
OneNewRecordListed(entity, body, before, after) ==
    \A l \in Lists(entity, before), m \in Lists(entity, after) :
        /\ Len(m) = Len(l) + 1
        /\ Cardinality(ListedRows(m)) = Len(m)
        /\ ListedRows(l) \subseteq ListedRows(m)
        /\ \A r \in ListedRows(m) \ ListedRows(l) :
               /\ r.id \notin AllIds(before)
               /\ PreservesInput(entity, body, r)

StatsPath == "GET /dashboard/stats"

\* the dashboard request just served was answered by its handler with 200
ServedStats == last # Idle /\ last.path = StatsPath /\ last.sent = <<200>>

\* the sum of the amounts of a table's rows
RECURSIVE Total(_)
Total(rows) ==
    IF rows = {} THEN 0
    ELSE LET r == CHOOSE x \in rows : TRUE
         IN  Total(rows \ {r}) + r.amount.v

\* the row r with its Campaign cleared when that Campaign is id
Detached(r, id) ==
    IF r.campaignId = id THEN [r EXCEPT !.campaignId = Null] ELSE r

\* the table that the list route of a path reads
ListedEntity(path) ==
    CASE path = "GET /expenses" -> "expenses"
      [] path = "GET /donations" -> "donations"
      [] path = "GET /campaigns" -> "campaigns"
      [] path = "GET /donors" -> "donors"
      [] path = "GET /beneficiaries" -> "beneficiaries"
      [] OTHER -> "none"

\* a list request has just been answered by its handler
ServedList ==
    last # Idle /\ ListedEntity(last.path) # "none" /\ last.handled

\* an export request has just been answered by its handler
ServedExport ==
    last # Idle /\ last.path = "GET /export/expenses" /\ last.handled

\* the data row x of the sheet is the row of the Expense r
RowOf(x, r, campaigns) ==
    /\ x.description = r.description
    /\ x.amount = r.amount
    /\ x.category = r.category
    /\ x.campaign = IF r.campaignId = Null THEN Str("N/A")
                    ELSE (CHOOSE c \in campaigns : c.id = r.campaignId).name

\* what a request may be answered and do to the store, in the present state
Responses(path, header, body) ==
    LET r == Route(path)
        mw == RunMiddleware(r.middleware, header, now)
    IN  IF mw.next > 0
        THEN { [sent |-> mw.sent \o <<h.status>>, out |-> h.out,
                db |-> h.db, nextId |-> h.nextId] :
                 h \in Handle(r.handler, body, db, nextId, now) }
        ELSE { [sent |-> mw.sent, out |-> Undefined,
                db |-> db, nextId |-> nextId] }

\* local storage holds neither the token nor the username
StorageCleared(c) ==
    c.storage.auth_token = NoSegment /\ c.storage.username = Null

\* the step s is a step of the browser
ClientDid(s, what) == s # Idle /\ s.path = what

\* the step s is the Dashboard's loadDashboardStats resuming with the answer
\* to its request; s.body is the task
StatsResumed(s) == ClientDid(s, "loadDashboardStats")

\* the handlers of the managers that load the list of their view, that
\* create a record, and that change the store in any way
LoadHandlers ==
    { "loadBeneficiaries", "loadCampaigns", "DonorManager.loadData",
      "ExpenseManager.loadData" }

CreateHandlers ==
    { "BeneficiaryManager.handleSubmit", "CampaignManager.handleSubmit",
      "handleAddDonorSubmit", "handleAddDonationSubmit",
      "ExpenseManager.handleSubmit" }

MutatingHandlers == CreateHandlers \cup { "handleDelete" }

\* the step s is a handler of the set resuming after its await; s.body is
\* the task
HandlerResumed(s, handlers) == s # Idle /\ s.path \in handlers

\* the tasks that the step started
Started == ui'.tasks \ ui.tasks

\* the step s is an update or a delete of the Expense s.body.id by the client
ExpenseUpdate(s) == s # Idle /\ s.path = "PUT /expenses/:id"
ExpenseDelete(s) == s # Idle /\ s.path = "DELETE /expenses/:id"

\* the statement s deleted a row of the table
Deleted(s, table) == s # Idle /\ s.path = "DELETE FROM " \o table

----------------------------------------------------------------------------
(* Properties *)

\* C1: on every route other than login the handler runs, and the store is
\* queried, only on a request whose token the middleware verified (a token a
\* login signed, not yet expired); a request without such a token gets 401 or
\* 403, never reaches the handler, issues no query and leaves the store as it
\* was.
C1_Served ==
    ServedProtected =>
        /\ (last.handled \/ last.queries > 0) =>
               /\ HoldsLiveToken(last.header, now)
               /\ last.mw.sent = <<>>
               /\ last.mw.next = 1
        /\ ~HoldsLiveToken(last.header, now) =>
               /\ ~last.handled
               /\ last.queries = 0
               /\ last.sent \in {<<401>>, <<403>>}

C1_StoreUntouched ==
    (Routed(last') /\ last'.path # LoginPath /\ ~last'.handled) =>
        (db' = db /\ nextId' = nextId)

C1_HandlerOnlyAfterAuthentication ==
    []C1_Served /\ [][C1_StoreUntouched]_vars

\* C1 witness: a create request with a well-formed body and a forged token was
\* turned away before its handler
C1_Witness ==
    /\ last # Idle
    /\ last.path = "POST /donors"
    /\ last.body = DonorBase
    /\ SecondSegment(last.header).kind = "jwt"
    /\ ~last.handled
    /\ last.sent = <<403>>

\* C2: login answers 200 with a token exactly when the submitted pair is one
\* entry of the allow-list (both fields of the same entry); the answer then
\* carries the submitted username and a token signed for it; any other pair of
\* non-empty strings gets 401, and no answer but 200 signs a token.
C2_Served ==
    ServedLogin =>
        /\ (last.sent = <<200>>) <=> AllowListed(last.body)
        /\ AllowListed(last.body) =>
               /\ last.out.username = last.body.username
               /\ last.out.token.username = last.body.username.v
               /\ last.out.token \in issued
        /\ (WellFormedPair(last.body) /\ ~AllowListed(last.body)) =>
               /\ last.sent = <<401>>
               /\ last.out = Str("Invalid credentials")

C2_NoTokenOtherwise ==
    (last' # Idle /\ last'.path = LoginPath /\ last'.sent # <<200>>) =>
        issued' = issued

C2_LoginIffAllowListed == []C2_Served /\ [][C2_NoTokenOtherwise]_vars

\* C2 witness: staff logged in with staff's key and holds the token
C2_Witness ==
    /\ ServedLogin
    /\ last.body.username = Str("staff")
    /\ last.sent = <<200>>
    /\ last.out.token \in issued

\* C3 as claimed: every login body that is not an allow-listed pair gets 401
C3_Original ==
    (ServedLogin /\ ~AllowListed(last.body)) => last.sent = <<401>>

\* C3: a login body that is not an allow-listed pair never gets a token: it
\* gets 401 when both fields are non-empty strings, and 400 when a field is
\* missing, empty or not a string.
C3_RejectedByShape ==
    (ServedLogin /\ ~AllowListed(last.body)) =>
        /\ WellFormedPair(last.body) => last.sent = <<401>>
        /\ ~WellFormedPair(last.body) => last.sent = <<400>>
        /\ last.sent # <<200>>

\* C3 witness: a login without a username was answered 400
C3_Witness ==
    /\ ServedLogin
    /\ IsUndefined(last.body.username)
    /\ last.body.accessKey = Str("ray-hope-2024")
    /\ last.sent = <<400>>

\* C4: a token that a login signed authenticates every protected request made
\* less than 24 hours after it was issued, and is answered 403 on every request
\* made once 24 hours have passed; a token that has reached its 24 hours stays
\* past them.
C4_Served ==
    (ServedProtected /\ SecondSegment(last.header) \in issued) =>
        LET age == now - SecondSegment(last.header).iat
        IN  /\ age < TicksPerDay => (last.handled /\ last.mw.sent = <<>>)
            /\ age >= TicksPerDay => (~last.handled /\ last.sent = <<403>>)

C4_StaysExpired ==
    \A token \in issued :
        now - token.iat >= TicksPerDay =>
            (token \in issued' /\ now' - token.iat >= TicksPerDay)

C4_TokenLivesOneDay == []C4_Served /\ [][C4_StaysExpired]_vars

\* C4 witness: a token was refused 24 hours or more after its login
C4_Witness ==
    /\ ServedProtected
    /\ SecondSegment(last.header) \in issued
    /\ now - SecondSegment(last.header).iat >= TicksPerDay
    /\ last.sent = <<403>>

\* C5: the middleware has one outcome per request: 401 when the header is
\* absent or has no (or an empty) second segment, 403 when a token is there but
\* was not signed by a login or has expired, and otherwise one call of the
\* handler and no response of its own; the request gets exactly one response.
C5_OneOutcome ==
    ServedProtected =>
        /\ Len(last.mw.sent) + last.mw.next = 1
        /\ CarriesNoToken(last.header) => last.mw.sent = <<401>>
        /\ (~CarriesNoToken(last.header)
              /\ ~HoldsLiveToken(last.header, now)) => last.mw.sent = <<403>>
        /\ (~CarriesNoToken(last.header)
              /\ HoldsLiveToken(last.header, now)) => last.mw.next = 1
        /\ last.handled <=> last.mw.next = 1
        /\ Len(last.sent) = 1

\* C5 witness: a token signed with another key was answered 403
C5_Witness ==
    /\ ServedProtected
    /\ SecondSegment(last.header).kind = "jwt"
    /\ SecondSegment(last.header).key # JWT_SECRET
    /\ last.mw.sent = <<403>>
    /\ last.mw.next = 0

\* C6: a create of an Expense or a Donation whose amount is a number <= 0 is
\* answered 400 and persists nothing: the Expense and Donation rows are the
\* same after the request as before it.
C6_Step ==
    (/\ CreateHandled(last')
     /\ EntityOf(last'.path) \in {"expenses", "donations"}
     /\ IsNumber(last'.body.amount)
     /\ last'.body.amount.v <= 0) =>
        /\ last'.sent = <<400>>
        /\ db'.expenses = db.expenses
        /\ db'.donations = db.donations
        /\ db' = db

C6_NonPositiveAmountRejected == [][C6_Step]_vars

\* C6 witness: a Donation of amount 0 for an existing Donor was answered 400
C6_Witness ==
    /\ CreateHandled(last)
    /\ last.path = "POST /donations"
    /\ last.body.amount = Num(0)
    /\ last.body.donorId \in RowIds(db.donors)
    /\ last.sent = <<400>>

\* C7 as claimed: for every input that satisfies the entity's schema, the list
\* after the create holds exactly one record more, fresh and as submitted
C7_OriginalStep ==
    (/\ CreateHandled(last')
     /\ SatisfiesSchema(EntityOf(last'.path), last'.body)) =>
        OneNewRecordListed(EntityOf(last'.path), last'.body, db, db')

C7_Original == [][C7_OriginalStep]_vars

\* C7: for every input that satisfies the entity's schema and whose donorId
\* and campaignId, where given, name an existing Donor and Campaign, the list
\* after the create holds the records listed before, unchanged, and exactly one
\* more, with a fresh id and every submitted field as submitted.
C7_Step ==
    (/\ CreateHandled(last')
     /\ SatisfiesSchema(EntityOf(last'.path), last'.body)
     /\ ReferencesExist(EntityOf(last'.path), last'.body, db)) =>
        /\ last'.sent = <<201>>
        /\ OneNewRecordListed(EntityOf(last'.path), last'.body, db, db')

C7_CreateThenList == [][C7_Step]_vars

\* C7 witness: a Donor with an e-mail address was created and is in the store
C7_Witness ==
    /\ CreateHandled(last)
    /\ last.path = "POST /donors"
    /\ last.body.email = Str("asha@example.org")
    /\ last.sent = <<201>>
    /\ last.out \in db.donors
    /\ last.out.email = Str("asha@example.org")

\* C8 as claimed: a create whose input satisfies the schema and that the store
\* rejects (a donorId or campaignId that names no row) is answered 500
C8_StoreFailureIs500 ==
    (/\ CreateHandled(last)
     /\ SatisfiesSchema(EntityOf(last.path), last.body)
     /\ ~ReferencesExist(EntityOf(last.path), last.body, db)) =>
        last.sent = <<500>>

\* C9: every Donation's donorId names a Donor of the store, and every non-null
\* campaignId of a Donation or an Expense names a Campaign of the store.
C9_ReferencesHold ==
    /\ \A r \in db.donations :
           /\ r.donorId \in RowIds(db.donors)
           /\ r.campaignId = Null \/ r.campaignId \in RowIds(db.campaigns)
    /\ \A r \in db.expenses :
           r.campaignId = Null \/ r.campaignId \in RowIds(db.campaigns)

\* C9 witness: after a Campaign was deleted, a Donation is left without a
\* Campaign while another Campaign and the Donation's Donor are in the store
C9_Witness ==
    /\ \E r \in db.donations :
           r.campaignId = Null /\ r.donorId \in RowIds(db.donors)
    /\ Str("campaign-0") \notin RowIds(db.campaigns)
    /\ db.campaigns # {}

\* C10: every row satisfies its schema: Donation and Expense amounts are
\* positive, a Campaign's targetAmount is positive or null, names and the
\* Expense's description and category are non-empty strings, a Campaign's
\* status is ACTIVE, COMPLETED or PAUSED; and a Campaign created without a
\* status has the status ACTIVE.
C10_RowsSatisfySchemas ==
    /\ \A r \in db.donations : IsNumber(r.amount) /\ r.amount.v > 0
    /\ \A r \in db.expenses :
           /\ IsNumber(r.amount) /\ r.amount.v > 0
           /\ IsString(r.description) /\ r.description.v # ""
           /\ IsString(r.category) /\ r.category.v # ""
    /\ \A r \in db.campaigns :
           /\ IsString(r.name) /\ r.name.v # ""
           /\ r.targetAmount = Null
                  \/ (IsNumber(r.targetAmount) /\ r.targetAmount.v > 0)
           /\ r.status \in {Str("ACTIVE"), Str("COMPLETED"), Str("PAUSED")}
    /\ \A r \in db.donors \cup db.beneficiaries :
           IsString(r.name) /\ r.name.v # ""
    /\ (/\ CreateHandled(last)
        /\ EntityOf(last.path) = "campaigns"
        /\ last.sent = <<201>>
        /\ IsUndefined(last.body.status)) =>
           (last.out \in db.campaigns /\ last.out.status = Str("ACTIVE"))

\* C10 witness: a Campaign created without a status is in the store
C10_Witness ==
    /\ CreateHandled(last)
    /\ last.path = "POST /campaigns"
    /\ IsUndefined(last.body.status)
    /\ last.sent = <<201>>
    /\ last.out \in db.campaigns

\* C11: the dashboard's totalDonations is the sum of the amounts of the
\* Donations in the store and its totalExpenses the sum of the amounts of the
\* Expenses; over an empty table the total is the number 0, not null and not
\* undefined.
C11_TotalsAreSums ==
    ServedStats =>
        /\ IsNumber(last.out.totalDonations)
        /\ IsNumber(last.out.totalExpenses)
        /\ last.out.totalDonations.v = Total(db.donations)
        /\ last.out.totalExpenses.v = Total(db.expenses)
        /\ db.donations = {} => last.out.totalDonations = Num(0)
        /\ db.expenses = {} => last.out.totalExpenses = Num(0)

\* C11 witness: the dashboard was served over a store with Donations and no
\* Expense
C11_Witness ==
    /\ ServedStats
    /\ Cardinality(db.donations) = 2
    /\ db.expenses = {}
    /\ last.out.totalDonations = Num(1000)
    /\ last.out.totalExpenses = Num(0)

\* C12: the dashboard's recentDonors are min(5, number of Donations) distinct
\* Donations of the store, in order of creation time descending, and no
\* Donation left out was created later than a listed one.
C12_RecentDonors ==
    ServedStats =>
        LET l == last.out.recentDonors
            n == Cardinality(db.donations)
            listed == { l[i].row : i \in DOMAIN l }
        IN  /\ Len(l) = (IF n < 5 THEN n ELSE 5)
            /\ Cardinality(listed) = Len(l)
            /\ listed \subseteq db.donations
            /\ \A i, j \in DOMAIN l :
                   i < j => l[i].row.createdAt >= l[j].row.createdAt
            /\ \A r \in listed : \A u \in db.donations \ listed :
                   u.createdAt <= r.createdAt

\* C12 witness: over six Donations created at different times the dashboard
\* listed five
C12_Witness ==
    /\ ServedStats
    /\ Cardinality(db.donations) = 6
    /\ Len(last.out.recentDonors) = 5
    /\ last.out.recentDonors[1].row.createdAt
           > last.out.recentDonors[5].row.createdAt
    /\ \E u \in db.donations :
           u.createdAt < last.out.recentDonors[5].row.createdAt

\* C13 as claimed: the dashboard never answers while a sub-query is still
\* pending; it answers 200 with the four values when all four succeed and
\* 500 without any of them when one fails
C13_Original ==
    (stats.active /\ stats.sent # <<>>) =>
        /\ stats.pending = {}
        /\ Len(stats.sent) = 1
        /\ (\A q \in SubQueries : stats.results[q].state = "fulfilled") =>
               stats.sent = <<200>>
        /\ (\E q \in SubQueries : stats.results[q].state = "rejected") =>
               stats.sent = <<500>>

\* C13: the dashboard answers once.  It answers 200, with the four values its
\* sub-queries returned, only when all four have succeeded; it answers 500,
\* with none of the values, as soon as the first sub-query fails, which can be
\* while others are still pending; it has answered by the time all four
\* have settled, and the answer sent is never followed or replaced by another.
C13_Answer ==
    stats.active =>
        /\ Len(stats.sent) <= 1
        /\ stats.sent = <<200>> =>
               /\ stats.pending = {}
               /\ \A q \in SubQueries : stats.results[q].state = "fulfilled"
               /\ stats.out.activeCampaigns = stats.results[3].value
               /\ stats.out.recentDonors = stats.results[4].value
               /\ IsNumber(stats.out.totalDonations)
               /\ IsNumber(stats.out.totalExpenses)
               /\ stats.results[1].value # Null =>
                      stats.out.totalDonations = stats.results[1].value
               /\ stats.results[2].value # Null =>
                      stats.out.totalExpenses = stats.results[2].value
        /\ stats.sent = <<500>> =>
               /\ \E q \in SubQueries : stats.results[q].state = "rejected"
               /\ DOMAIN stats.out = DOMAIN Str("")
               /\ IsString(stats.out)
        /\ stats.sent = <<>> =>
               /\ stats.pending # {}
               /\ \A q \in SubQueries : stats.results[q].state # "rejected"
        /\ \A q \in SubQueries :
               (q \in stats.pending) <=> (stats.results[q].state = "pending")

C13_AnswerStands ==
    (stats.active /\ stats.sent # <<>> /\ stats'.active) =>
        (stats'.sent = stats.sent /\ stats'.out = stats.out)

C13_RespondsOnce == []C13_Answer /\ [][C13_AnswerStands]_vars

\* C13 witness: the count of campaigns failed first and the dashboard was
\* answered 500 while the other three queries were pending
C13_Witness ==
    /\ stats.active
    /\ stats.sent = <<500>>
    /\ stats.results[3].state = "rejected"
    /\ stats.pending = {1, 2, 4}

\* C14: deleting a Campaign deletes no Donation and no Expense: each one that
\* referenced the Campaign is still in the store with campaignId null and its
\* other fields as they were, every other Donation and Expense is as it was,
\* and no other table changes but for the Campaign's own row.
C14_Step ==
    Deleted(last', "campaigns") =>
        LET id == last'.out.id
        IN  /\ db'.campaigns = { c \in db.campaigns : c.id # id }
            /\ db'.donations = { Detached(r, id) : r \in db.donations }
            /\ db'.expenses = { Detached(r, id) : r \in db.expenses }
            /\ Cardinality(db'.donations) = Cardinality(db.donations)
            /\ Cardinality(db'.expenses) = Cardinality(db.expenses)
            /\ \A r \in db.donations \cup db.expenses :
                   r.campaignId # id =>
                       r \in db'.donations \cup db'.expenses
            /\ db'.donors = db.donors
            /\ db'.beneficiaries = db.beneficiaries

C14_CampaignDeleteDetaches == [][C14_Step]_vars

\* C14 witness: a Campaign that a Donation and an Expense referenced was
\* deleted; both are in the store without a Campaign, beside a Donation that
\* references the other Campaign
C14_Witness ==
    /\ Deleted(last, "campaigns")
    /\ \E r \in db.donations :
           r.id \in last.out.donations /\ r.campaignId = Null
    /\ \E r \in db.expenses :
           r.id \in last.out.expenses /\ r.campaignId = Null
    /\ \E r \in db.donations : r.campaignId \in RowIds(db.campaigns)

\* C15: deleting a Donor deletes the Donations whose donorId is that Donor and
\* no other row: afterwards no list of Donations shows one of them and the
\* dashboard's totalDonations is the sum over the other Donors' Donations,
\* which are unchanged, as are all Campaigns, Expenses and Beneficiaries.
C15_Step ==
    Deleted(last', "donors") =>
        LET id == last'.out.id
            others == { r \in db.donations : r.donorId # id }
        IN  /\ db'.donors = { r \in db.donors : r.id # id }
            /\ db'.donations = others
            /\ db'.campaigns = db.campaigns
            /\ db'.expenses = db.expenses
            /\ db'.beneficiaries = db.beneficiaries
            /\ \A l \in Lists("donations", db') : ListedRows(l) = others
            /\ \A o \in getDashboardStats(NoBody, db', nextId', now') :
                   /\ o.out.totalDonations = Num(Total(others))
                   /\ o.out.totalExpenses = Num(Total(db.expenses))
                   /\ \A i \in DOMAIN o.out.recentDonors :
                          o.out.recentDonors[i].row \in others

C15_DonorDeleteCascades == [][C15_Step]_vars

\* C15 witness: a Donor with a Donation was deleted while the other Donor's
\* Donation stayed
C15_Witness ==
    /\ Deleted(last, "donors")
    /\ last.out.donations # {}
    /\ last.out.donations \cap RowIds(db.donations) = {}
    /\ db.donations # {}
    /\ Cardinality(db.expenses) = MaxRecords

\* C16 as claimed: with a valid token, an update of an existing Expense is
\* answered 200 and overwrites description, amount, category and campaignId,
\* keeping id and createdAt; a delete of an existing Expense is answered 200
\* and removes it; either on an id that names no Expense is answered 404 and
\* leaves the store as it was.
C16_Step ==
    ((ExpenseUpdate(last') \/ ExpenseDelete(last'))
        /\ HoldsLiveToken(last'.header, now)) =>
        LET id == last'.body.id
            data == last'.body.data
            old == { r \in db.expenses : r.id = id }
            new == { r \in db'.expenses : r.id = id }
        IN  /\ (old = {}) => (last'.sent = <<404>> /\ db' = db)
            /\ (old # {} /\ ExpenseDelete(last')) =>
                   /\ last'.sent = <<200>>
                   /\ db'.expenses = db.expenses \ old
            /\ (old # {} /\ ExpenseUpdate(last')
                    /\ expenseSchema(data).ok) =>
                   /\ last'.sent = <<200>>
                   /\ Cardinality(new) = 1
                   /\ \A r \in new : \A o \in old :
                          /\ r.createdAt = o.createdAt
                          /\ r.description = data.description
                          /\ r.amount = data.amount
                          /\ r.category = data.category

C16_ExpenseUpdateDeleteServed == [][C16_Step]_vars

\* C17: the list of an entity holds every row of its table exactly once, in
\* order of creation time descending: a record created at a later time than
\* another comes before it.
C17_ListsNewestFirst ==
    ServedList =>
        LET l == last.out
            rows == db[ListedEntity(last.path)]
        IN  /\ last.sent = <<200>>
            /\ ListedRows(l) = rows
            /\ Len(l) = Cardinality(rows)
            /\ \A i, j \in DOMAIN l :
                   l[i].row.createdAt > l[j].row.createdAt => i < j

\* C17 witness: two Beneficiaries created at different times were listed, the
\* later one first
C17_Witness ==
    /\ ServedList
    /\ last.path = "GET /beneficiaries"
    /\ Len(last.out) = 2
    /\ last.out[1].row.createdAt > last.out[2].row.createdAt

\* C18: the exported sheet has one data row per Expense of the store, none
\* left out and none twice; the Campaign column of a row is the name of the
\* Expense's Campaign, and 'N/A' when its campaignId is null (as it is after
\* its Campaign was deleted).
C18_OneRowPerExpense ==
    ServedExport =>
        /\ last.sent = <<200>>
        /\ Len(last.out) = Cardinality(db.expenses)
        /\ \E f \in Orderings(db.expenses) :
               \A i \in DOMAIN f : RowOf(last.out[i], f[i], db.campaigns)

\* C18 witness: the sheet of an Expense of a Campaign and an Expense without
\* one
C18_Witness ==
    /\ ServedExport
    /\ Len(last.out) = 2
    /\ \E i, j \in DOMAIN last.out :
           /\ last.out[i].campaign = Str("Relief")
           /\ last.out[j].campaign = Str("N/A")

\* C19: after logout local storage holds neither the token nor the username,
\* the API client's token is null and the App shows the login gate; until the
\* next login succeeds that stays so, and a page load in between ends on the
\* login gate.
C19_LoggedOut ==
    ClientDid(last, "logout") =>
        /\ StorageCleared(client)
        /\ client.token = NoSegment
        /\ ~client.isAuthenticated
        /\ Screen(client) = "AuthGate"

C19_StaysLoggedOut ==
    (StorageCleared(client) /\ client.token = NoSegment
        /\ ~(last' # Idle /\ last'.path = LoginPath /\ last'.sent = <<200>>)) =>
        /\ StorageCleared(client')
        /\ client'.token = NoSegment
        /\ ~client'.isAuthenticated
        /\ ClientDid(last', "mount") => Screen(client') = "AuthGate"

C19_LogoutClears == []C19_LoggedOut /\ [][C19_StaysLoggedOut]_vars

\* C19 witness: after a login and a logout the page was loaded again and the
\* App came up on the login gate
C19_Witness ==
    /\ ClientDid(last, "mount")
    /\ issued # {}
    /\ StorageCleared(client)
    /\ client.token = NoSegment
    /\ Screen(client) = "AuthGate"

\* C20: a token that a login issued authenticates protected requests until
\* its 24 hours are over, whatever the browser did since (logout, page loads,
\* later logins): no step takes a token away from those the server accepts
\* other than the passing of time.
C20_Served ==
    (ServedProtected /\ SecondSegment(last.header) \in issued) =>
        (last.handled <=>
             now < SecondSegment(last.header).iat + TicksPerDay)

C20_Step ==
    \A token \in issued :
        /\ token \in issued'
        /\ authenticateToken(Bearer(token), now).next = 1 =>
               (authenticateToken(Bearer(token), now').next = 1
                    \/ now' >= token.iat + TicksPerDay)

C20_NoRevocation == []C20_Served /\ [][C20_Step]_vars

\* C20 witness: after a logout, a later login and another logout, the token
\* of the first login was accepted
C20_Witness ==
    /\ ServedProtected
    /\ last.handled
    /\ Screen(client) = "AuthGate"
    /\ client.token = NoSegment
    /\ \E later \in issued : later.iat > SecondSegment(last.header).iat

\* C21: on every protected route, what a caller with a valid token was
\* answered and did to the store is what a caller with any other valid token,
\* issued to another user, is answered and does with the same request in the
\* same state.
C21_Step ==
    (Routed(last') /\ last'.path # LoginPath
        /\ HoldsLiveToken(last'.header, now)) =>
        \A other \in issued :
            now < other.exp =>
                [sent |-> last'.sent, out |-> last'.out,
                 db |-> db', nextId |-> nextId']
                    \in Responses(last'.path, Bearer(other), last'.body)

C21_SameForEveryCaller == [][C21_Step]_vars

\* C21 witness: a Donor was created with staff's token while admin's token
\* is valid too
C21_Witness ==
    /\ ServedProtected
    /\ last.path = "POST /donors"
    /\ SecondSegment(last.header).username = "staff"
    /\ last.sent = <<201>>
    /\ sign("admin", JWT_SECRET, 0) \in issued
    /\ now < sign("admin", JWT_SECRET, 0).exp

\* C24: login, the five list requests, the dashboard statistics and the
\* export only read: whatever they answer, the step that serves one of them
\* leaves every table of the store, and the id sequence, exactly as they
\* were.
ReadOnlyPaths ==
    { LoginPath, StatsPath, "GET /export/expenses", "GET /expenses",
      "GET /donations", "GET /campaigns", "GET /donors",
      "GET /beneficiaries" }

C24_Step ==
    (Routed(last') /\ last'.path \in ReadOnlyPaths) =>
        db' = db /\ nextId' = nextId

C24_ReadsLeaveStore == [][C24_Step]_vars

\* an export answered with a sheet of at least one row
C24_Witness ==
    /\ ServedExport /\ last.sent = <<200>>
    /\ Len(last.out) > 0
    /\ db.expenses # {}

\* C25: the values of one dashboard answer describe a single state of the
\* store even when Donations are created between its sub-queries: there is a
\* set of Donations whose amounts add up to the returned totalDonations and
\* whose newest five are the returned recentDonors, so every Donation listed
\* is counted in the total and every one of the newest counted is listed.
C25_OneStoreState ==
    (stats.active /\ stats.sent = <<200>>) =>
        \E S \in SUBSET db.donations :
            /\ stats.out.totalDonations = OrZero(aggregateSum(S))
            /\ \E f \in findManyDesc(S) :
                   LET g == Take(f, RecentLimit)
                   IN  /\ DOMAIN g = DOMAIN stats.out.recentDonors
                       /\ \A i \in DOMAIN g :
                              g[i].id = stats.out.recentDonors[i].row.id

\* C28: whenever the App shows the Dashboard the API client holds a token.
\* The App becomes authenticated only when a login request was answered
\* with success, or at start-up when local storage holds both the token and
\* the username; a login that failed leaves the client as it was (no token
\* stored, not authenticated) and clears the loading flag of the form.
C28_TokenHeld == Screen(client) = "Dashboard" => ~Falsy(client.token)

C28_Step ==
    /\ (~client.isAuthenticated /\ client'.isAuthenticated) =>
           \/ /\ ClientDid(last', "AuthGate.handleSubmit")
              /\ last'.body.result.state = "fulfilled"
              /\ client'.token = last'.body.result.value[1].token
           \/ /\ ClientDid(last', "mount")
              /\ Truthy(client.storage.auth_token, client.storage.username)
    /\ (ClientDid(last', "AuthGate.handleSubmit")
            /\ last'.body.result.state = "rejected") =>
           /\ client' = client
           /\ ui.gate.loading /\ ~ui'.gate.loading

C28_DashboardHoldsToken == []C28_TokenHeld /\ [][C28_Step]_vars

\* C28 witness: a login failed, the next one succeeded, and the Dashboard is
\* shown
C28_Witness ==
    /\ ClientDid(last, "AuthGate.handleSubmit")
    /\ last.body.result.state = "fulfilled"
    /\ last.body.id > 1
    /\ Screen(client) = "Dashboard"

\* C27: with several stats requests in flight, the stats displayed in the
\* end are those answered to the request issued last, in whatever order
\* the answers arrive: the answer to the last request is displayed when it
\* arrives, and an answer to an earlier request that arrives after it
\* changes nothing. (Every request is served while the token is valid, so
\* every answer is a 200.)
C27_Step ==
    (StatsResumed(last') /\ ui.dashboard.mounted
        /\ HoldsLiveToken(clientHeader(client), now)) =>
        LET task == last'.body
        IN  /\ task.id = ui.started =>
                   ui'.dashboard.stats = task.result.value[1]
            /\ (task.id < ui.started
                    /\ \A t \in ui.tasks : t.id # ui.started) =>
                   ui'.dashboard.stats = ui.dashboard.stats

C27_LatestRequestWins == [][C27_Step]_vars

\* C29: an answer of 401 or 403 to a request of the browser changes nothing
\* of the client's authentication: isAuthenticated, the token and the stored
\* items are as before, the Dashboard stays on screen and the next request
\* carries the same token; these change only in handleAuthenticated (after a
\* login) and handleLogout.
AuthState(c) == <<c.isAuthenticated, c.username, c.token, c.storage>>

C29_Step ==
    /\ (StatsResumed(last') /\ last'.body.result.state = "rejected"
            /\ last'.body.calls[1].status \in {401, 403}) =>
           /\ AuthState(client') = AuthState(client)
           /\ Screen(client') = Screen(client)
           /\ clientHeader(client') = last'.body.calls[1].header
    /\ AuthState(client') # AuthState(client) =>
           \/ ClientDid(last', "logout")
           \/ /\ ClientDid(last', "AuthGate.handleSubmit")
              /\ last'.body.result.state = "fulfilled"

C30_Step ==
    LET d == ui.dashboard
        e == ui'.dashboard
    IN  (d.mounted /\ e.mounted) =>
            /\ StatsResumed(last') => ~e.loading
            /\ ~d.loading => ~e.loading
            /\ (StatsResumed(last') /\ last'.body.result.state = "rejected"
                    /\ d.stats = Null) =>
                   /\ e.stats = Null
                   /\ e.activeTab = "dashboard" =>
                          DashboardView(e) = "failure message"
            /\ (d.stats = Null /\ e.stats # Null) =>
                   /\ StatsResumed(last')
                   /\ last'.body.result.state = "fulfilled"
            /\ (StatsResumed(last') /\ last'.body.result.state = "fulfilled") =>
                   /\ e.stats = last'.body.result.value[1]
                   /\ e.activeTab = "dashboard" =>
                          DashboardView(e) = "stats"

C30_SpinnerEnds == [][C30_Step]_vars

\* C30 witness: the first fetch failed, a later one succeeded, and the
\* dashboard tab shows its stats
C30_Witness ==
    /\ StatsResumed(last)
    /\ last.body.result.state = "fulfilled"
    /\ last.body.id > 2
    /\ ~last.body.ctx.isInitialLoad
    /\ DashboardView(ui.dashboard) = "stats"

\* C22: in each of the four views, when a create, update or delete has
\* succeeded the handler requests the list of its view again; when it has
\* failed (answered with an error, or refused in the browser) no request is
\* sent and the list on screen stays as it was.
C22_Step ==
    /\ (HandlerResumed(last', MutatingHandlers) /\ ui.manager.mounted) =>
           IF last'.body.result.state = "fulfilled"
           THEN \E t \in Started : \E i \in DOMAIN t.calls :
                    /\ t.handler \in LoadHandlers
                    /\ t.calls[i].path = "GET /" \o ui.manager.view
                    /\ t.calls[i].state = "sent"
           ELSE /\ Started = {}
                /\ Displayed(ui'.manager) = Displayed(ui.manager)
    /\ (ClientDid(last', "submit") /\ Started = {}) =>
           Displayed(ui'.manager) = Displayed(ui.manager)

C22_ReloadAfterSuccess == [][C22_Step]_vars

\* C22 witness: a Donation was created from the donor view and the lists
\* are being fetched again
C22_Witness ==
    /\ HandlerResumed(last, {"handleAddDonationSubmit"})
    /\ last.body.result.state = "fulfilled"
    /\ db.donations # {}
    /\ \E t \in ui.tasks : t.handler = "DonorManager.loadData"

\* C23: in each view, when the load of the list or a create has failed the
\* view shows the error message of the server's answer, offers to try again,
\* and sends no request of its own.
C23_Step ==
    (HandlerResumed(last', LoadHandlers \cup CreateHandlers)
        /\ ui.manager.mounted
        /\ last'.body.calls[1].path # "PUT /expenses/:id"
        /\ last'.body.result.state = "rejected") =>
        /\ last'.body.result.value \in ShownErrors(ui'.manager)
        /\ RetryOffered(ui'.manager, last'.path \in LoadHandlers)
        /\ Started = {}

C23_ErrorShownWithRetry == [][C23_Step]_vars

\* C26: in the expense view, whenever the 'Add Expense' button opens the
\* dialog no Expense is being edited and the form is empty, whatever was
\* done before (so that a submit creates a record).
C26_Step ==
    (ClientDid(last', "Add") /\ ui'.manager.view = "expenses") =>
        /\ ui'.manager.dialogOpen
        /\ ui'.manager.editingExpense = Null
        /\ ui'.manager.formData = ExpenseManagerMounted.formData

C26_AddOpensEmptyForm == [][C26_Step]_vars

====
